---------------------------- MODULE Spec2Model ----------------------------
(***************************************************************************)
(* A model of the hand-rolled HTTP/1.1-like client and server of          *)
(* src/client/client.go and src/server/server.go: the request/response    *)
(* codec, the negotiator, the router, and the two read loops.             *)
(*                                                                         *)
(* A Go string or []byte is a sequence of one-character strings; CR and   *)
(* LF are the characters "\r" and "\n".                                   *)
(***************************************************************************)
EXTENDS Integers, Sequences, FiniteSets, TLC

(***************************************************************************)
(* Go's strings / strconv functions, as far as the program uses them.     *)
(***************************************************************************)
Str(s) == [i \in 1..Len(s) |-> SubSeq(s, i, i)]

CRLF == Str("\r\n")
CRLFCRLF == Str("\r\n\r\n")

Min(a, b) == IF a < b THEN a ELSE b

\* strings.Index: the 0-based offset of the first occurrence, or -1
Index(s, sub) ==
    LET hits == {i \in 0..(Len(s) - Len(sub)) : SubSeq(s, i + 1, i + Len(sub)) = sub}
    IN IF hits = {} THEN -1 ELSE CHOOSE i \in hits : \A j \in hits : i <= j

Contains(s, sub) == Index(s, sub) >= 0

HasPrefix(s, p) == Len(s) >= Len(p) /\ SubSeq(s, 1, Len(p)) = p

\* strings.Split with a non-empty separator: left to right, non-overlapping
RECURSIVE Split(_, _)
Split(s, sep) ==
    LET i == Index(s, sep)
    IN IF i = -1 THEN <<s>>
       ELSE <<SubSeq(s, 1, i)>> \o Split(SubSeq(s, i + Len(sep) + 1, Len(s)), sep)

\* strings.SplitN(s, sep, 2)
SplitN2(s, sep) ==
    LET i == Index(s, sep)
    IN IF i = -1 THEN <<s>>
       ELSE <<SubSeq(s, 1, i), SubSeq(s, i + Len(sep) + 1, Len(s))>>

RECURSIVE Join(_, _)
Join(parts, sep) ==
    IF Len(parts) = 0 THEN <<>>
    ELSE IF Len(parts) = 1 THEN parts[1]
    ELSE parts[1] \o sep \o Join(Tail(parts), sep)

UpperChars == Str("ABCDEFGHIJKLMNOPQRSTUVWXYZ")
LowerChars == Str("abcdefghijklmnopqrstuvwxyz")

ToLowerChar(c) ==
    IF \E i \in 1..26 : UpperChars[i] = c
    THEN LowerChars[CHOOSE i \in 1..26 : UpperChars[i] = c]
    ELSE c

ToLower(s) == [i \in 1..Len(s) |-> ToLowerChar(s[i])]

\* the ASCII white space strings.TrimSpace cuts
SpaceChars == {" ", "\t", "\n", "\r", "\f"}

RECURSIVE TrimLeft(_)
TrimLeft(s) == IF Len(s) > 0 /\ s[1] \in SpaceChars THEN TrimLeft(Tail(s)) ELSE s

RECURSIVE TrimRight(_)
TrimRight(s) ==
    IF Len(s) > 0 /\ s[Len(s)] \in SpaceChars THEN TrimRight(SubSeq(s, 1, Len(s) - 1)) ELSE s

TrimSpace(s) == TrimRight(TrimLeft(s))

Digits == Str("0123456789")

IsDigit(c) == \E i \in 1..10 : Digits[i] = c

DigitVal(c) == (CHOOSE i \in 1..10 : Digits[i] = c) - 1

\* strconv.Atoi: an optional sign, then one or more decimal digits
AtoiOk(s) ==
    LET body == IF Len(s) > 0 /\ s[1] \in {"+", "-"} THEN Tail(s) ELSE s
    IN Len(body) > 0 /\ \A i \in 1..Len(body) : IsDigit(body[i])

RECURSIVE DigitsVal(_)
DigitsVal(s) ==
    IF Len(s) = 0 THEN 0 ELSE 10 * DigitsVal(SubSeq(s, 1, Len(s) - 1)) + DigitVal(s[Len(s)])

Atoi(s) ==
    IF s[1] = "-" THEN 0 - DigitsVal(Tail(s))
    ELSE IF s[1] = "+" THEN DigitsVal(Tail(s))
    ELSE DigitsVal(s)

\* fmt.Sprintf("%d", n)
RECURSIVE NatStr(_)
NatStr(n) == IF n < 10 THEN <<Digits[n + 1]>> ELSE NatStr(n \div 10) \o <<Digits[(n % 10) + 1]>>

Itoa(n) == IF n < 0 THEN <<"-">> \o NatStr(0 - n) ELSE NatStr(n)

(***************************************************************************)
(* Program constants.                                                      *)
(***************************************************************************)
\* BUFFER_SIZE is 2048 in both programs; the model scales the read buffer down
BUFFER_SIZE == 16

STUDENT_NAME == Str("Muhammad Raihan Maulana")
STUDENT_NPM == Str("2306216636")

(***************************************************************************)
(* The message model.                                                      *)
(***************************************************************************)
HttpRequest(m, u, v, h, a, ae) ==
    [Method |-> m, Uri |-> u, Version |-> v, Host |-> h, Accept |-> a, AcceptEncoding |-> ae]

\* HttpRequest{}
EmptyRequest == HttpRequest(<<>>, <<>>, <<>>, <<>>, <<>>, <<>>)

HttpResponse(v, sc, ct, ce, cl, d) ==
    [Version |-> v, StatusCode |-> sc, ContentType |-> ct, ContentEncoding |-> ce,
     ContentLength |-> cl, Data |-> d]

\* HttpResponse{}
EmptyResponse == HttpResponse(<<>>, <<>>, <<>>, <<>>, 0, <<>>)


(***************************************************************************)
(* The codec.                                                              *)
(***************************************************************************)
\* client.go RequestEncoder
RequestEncoder(req) ==
    req.Method \o Str(" ") \o req.Uri \o Str(" ") \o req.Version \o CRLF
    \o Str("Host: ") \o req.Host \o CRLF
    \o Str("Accept: ") \o req.Accept \o CRLF
    \o (IF req.AcceptEncoding # Str("none")
        THEN Str("Accept-Encoding: ") \o req.AcceptEncoding \o CRLF
        ELSE <<>>)
    \o CRLF

\* a decoder that keeps the tokens a short request line does have
RequestLineKeepsTokens(req, line) ==
    LET requestLineParts == Split(line, Str(" "))
    IN [req EXCEPT !.Method = IF Len(requestLineParts) >= 1 THEN requestLineParts[1] ELSE <<>>,
                   !.Uri = IF Len(requestLineParts) >= 2 THEN requestLineParts[2] ELSE <<>>,
                   !.Version = IF Len(requestLineParts) >= 3 THEN requestLineParts[3] ELSE <<>>]

\* server.go RequestDecoder, the request line: fewer than 3 tokens leave req as it is
RequestLine(req, line) ==
    LET requestLineParts == Split(line, Str(" "))
    IN IF Len(requestLineParts) >= 3
       THEN [req EXCEPT !.Method = requestLineParts[1],
                        !.Uri = requestLineParts[2],
                        !.Version = requestLineParts[3]]
       ELSE req

\* server.go RequestDecoder, one header line of the loop body
RequestHeader(req, line) ==
    LET headerParts == SplitN2(line, Str(": "))
    IN IF Len(headerParts) = 2
       THEN LET headerName == ToLower(headerParts[1])
                headerValue == headerParts[2]
            IN CASE headerName = Str("host") -> [req EXCEPT !.Host = headerValue]
                 [] headerName = Str("accept") -> [req EXCEPT !.Accept = headerValue]
                 [] headerName = Str("accept-encoding") ->
                        [req EXCEPT !.AcceptEncoding = headerValue]
                 [] OTHER -> req
       ELSE req

\* server.go RequestDecoder, the loop over lines[i..]: it stops at the first empty line
RECURSIVE RequestHeaders(_, _, _)
RequestHeaders(req, lines, i) ==
    IF i > Len(lines) \/ lines[i] = <<>> THEN req
    ELSE RequestHeaders(RequestHeader(req, lines[i]), lines, i + 1)

\* server.go RequestDecoder
RequestDecoder(bytestream) ==
    LET lines == Split(bytestream, CRLF)
        req == RequestHeaders(RequestLine(EmptyRequest, lines[1]), lines, 2)
    IN IF req.AcceptEncoding = <<>> THEN [req EXCEPT !.AcceptEncoding = Str("none")] ELSE req

\* an encoder that writes the Content-Encoding header for "none" too
ResponseEncoderKeepsNone(res) ==
    res.Version \o Str(" ") \o res.StatusCode \o Str(" OK") \o CRLF
    \o (IF res.ContentType # <<>>
        THEN Str("Content-Type: ") \o res.ContentType \o CRLF
        ELSE <<>>)
    \o (IF res.ContentEncoding # <<>>
        THEN Str("Content-Encoding: ") \o res.ContentEncoding \o CRLF
        ELSE <<>>)
    \o Str("Content-Length: ") \o Itoa(res.ContentLength) \o CRLF
    \o CRLF
    \o res.Data

\* an encoder that writes OK for 200 only
ResponseEncoderReasonPhrase(res) ==
    res.Version \o Str(" ") \o res.StatusCode
    \o (IF res.StatusCode = Str("200") THEN Str(" OK") ELSE Str(" Error")) \o CRLF
    \o (IF res.ContentType # <<>>
        THEN Str("Content-Type: ") \o res.ContentType \o CRLF
        ELSE <<>>)
    \o (IF res.ContentEncoding # <<>> /\ res.ContentEncoding # Str("none")
        THEN Str("Content-Encoding: ") \o res.ContentEncoding \o CRLF
        ELSE <<>>)
    \o Str("Content-Length: ") \o Itoa(res.ContentLength) \o CRLF
    \o CRLF
    \o res.Data

\* server.go ResponseEncoder
ResponseEncoder(res) ==
    res.Version \o Str(" ") \o res.StatusCode \o Str(" OK") \o CRLF
    \o (IF res.ContentType # <<>>
        THEN Str("Content-Type: ") \o res.ContentType \o CRLF
        ELSE <<>>)
    \o (IF res.ContentEncoding # <<>> /\ res.ContentEncoding # Str("none")
        THEN Str("Content-Encoding: ") \o res.ContentEncoding \o CRLF
        ELSE <<>>)
    \o Str("Content-Length: ") \o Itoa(res.ContentLength) \o CRLF
    \o CRLF
    \o res.Data

\* client.go ResponseDecoder, the status line
StatusLine(response, line) ==
    LET statusParts == Split(line, Str(" "))
    IN IF Len(statusParts) >= 3
       THEN [response EXCEPT !.Version = statusParts[1], !.StatusCode = statusParts[2]]
       ELSE response

\* client.go ResponseDecoder, one header line of the loop body
ResponseHeader(response, line) ==
    LET headerParts == SplitN2(line, Str(": "))
    IN IF Len(headerParts) = 2
       THEN LET headerName == ToLower(headerParts[1])
                headerValue == headerParts[2]
            IN CASE headerName = Str("content-type") ->
                        [response EXCEPT !.ContentType = headerValue]
                 [] headerName = Str("content-encoding") ->
                        [response EXCEPT !.ContentEncoding = headerValue]
                 [] headerName = Str("content-length") ->
                        IF AtoiOk(headerValue)
                        THEN [response EXCEPT !.ContentLength = Atoi(headerValue)]
                        ELSE response
                 [] OTHER -> response
       ELSE response

\* client.go ResponseDecoder, the loop over lines: the index (from 0) of the first
\* empty line, 0 when there is none
HeaderEndIndex(lines) ==
    LET empties == {i \in 1..Len(lines) : lines[i] = <<>>}
    IN IF empties = {} THEN 0 ELSE (CHOOSE i \in empties : \A j \in empties : i <= j) - 1

\* client.go ResponseDecoder, the header lines the loop parses: lines[1..] up to the
\* first empty line (all of them when there is none)
RECURSIVE ResponseHeaders(_, _, _)
ResponseHeaders(response, lines, i) ==
    IF i > Len(lines) \/ lines[i] = <<>> THEN response
    ELSE ResponseHeaders(ResponseHeader(response, lines[i]), lines, i + 1)

\* a decoder that rejoins the body lines with LF alone
ResponseBodyJoinLF(lines) ==
    LET headerEndIndex == HeaderEndIndex(lines)
    IN IF headerEndIndex < Len(lines) - 1
       THEN Join(SubSeq(lines, headerEndIndex + 2, Len(lines)), Str("\n"))
       ELSE <<>>

\* client.go ResponseDecoder, the body: the lines after the first empty one, rejoined
ResponseBody(lines) ==
    LET headerEndIndex == HeaderEndIndex(lines)
    IN IF headerEndIndex < Len(lines) - 1
       THEN Join(SubSeq(lines, headerEndIndex + 2, Len(lines)), CRLF)
       ELSE <<>>

\* client.go ResponseDecoder
ResponseDecoder(bytestream) ==
    LET lines == Split(bytestream, CRLF)
        response == IF lines[1] = <<>> THEN EmptyResponse
                    ELSE ResponseHeaders(StatusLine(EmptyResponse, lines[1]), lines, 2)
    IN [response EXCEPT !.Data = ResponseBody(lines)]

(***************************************************************************)
(* The negotiator.                                                         *)
(***************************************************************************)
\* a negotiator that looks for application/xml before the comma and q= rule
determineContentTypeXmlFirst(accept) ==
    LET a == ToLower(accept)
    IN IF Contains(a, Str("application/xml")) THEN Str("application/xml")
       ELSE Str("application/json")

\* server.go determineContentType
determineContentType(accept) ==
    LET a == ToLower(accept)
    IN IF Contains(a, Str(",")) \/ Contains(a, Str("q=")) THEN Str("application/json")
       ELSE IF Contains(a, Str("application/xml")) THEN Str("application/xml")
       ELSE IF Contains(a, Str("application/json")) THEN Str("application/json")
       ELSE Str("application/json")

\* a negotiator whose fallback for an unknown encoding is none
determineEncodingNoneDefault(acceptEncoding) ==
    LET a == ToLower(acceptEncoding)
    IN IF Contains(a, Str(",")) \/ Contains(a, Str("q=")) THEN Str("gzip")
       ELSE IF Contains(a, Str("deflate")) THEN Str("deflate")
       ELSE IF Contains(a, Str("gzip")) THEN Str("gzip")
       ELSE Str("none")

\* server.go determineEncoding
determineEncoding(acceptEncoding) ==
    LET a == ToLower(acceptEncoding)
    IN IF Contains(a, Str(",")) \/ Contains(a, Str("q=")) THEN Str("gzip")
       ELSE IF Contains(a, Str("deflate")) THEN Str("deflate")
       ELSE IF Contains(a, Str("gzip")) THEN Str("gzip")
       ELSE IF a = Str("none") THEN Str("none")
       ELSE Str("gzip")

(***************************************************************************)
(* net/url, for the request targets the server is given here: the empty   *)
(* target, and targets that start with one "/" (no scheme, no authority). *)
(***************************************************************************)
HexChars == Str("0123456789abcdef")

IsHex(c) == \E i \in 1..16 : HexChars[i] = ToLowerChar(c)

HexVal(c) == (CHOOSE i \in 1..16 : HexChars[i] = ToLowerChar(c)) - 1

\* the printable ASCII characters, 0x20 .. 0x7e (the grave accent written 0x60)
Printable ==
    Str(" !\"#$%&'()*+,-./0123456789:;<=>?@ABCDEFGHIJKLMNOPQRSTUVWXYZ[\\]^_")
    \o <<"0x60">> \o Str("abcdefghijklmnopqrstuvwxyz{|}~")

\* the byte %XY stands for; bytes outside printable ASCII are kept apart as <<X, Y>>
ByteOf(hi, lo) ==
    LET v == 16 * HexVal(hi) + HexVal(lo)
    IN IF v >= 32 /\ v <= 126 THEN Printable[v - 31]
       ELSE IF v = 13 THEN "\r"
       ELSE IF v = 10 THEN "\n"
       ELSE IF v = 9 THEN "\t"
       ELSE <<ToLowerChar(hi), ToLowerChar(lo)>>

\* net/url stringContainsCTLByte: a byte below 0x20, or 0x7f
ContainsCTLByte(s) == \E i \in 1..Len(s) : s[i] \in {"\r", "\n", "\t", "\f"}

\* net/url unescape, the validation pass: every % is followed by two hex digits
EscapesOk(s) ==
    \A i \in 1..Len(s) : s[i] = "%" => (i + 2 <= Len(s) /\ IsHex(s[i + 1]) /\ IsHex(s[i + 2]))

\* net/url unescape, the decoding pass; plus is TRUE for a query component
RECURSIVE Unescape(_, _)
Unescape(s, plus) ==
    IF Len(s) = 0 THEN <<>>
    ELSE IF s[1] = "%" THEN <<ByteOf(s[2], s[3])>> \o Unescape(SubSeq(s, 4, Len(s)), plus)
    ELSE IF s[1] = "+" /\ plus THEN <<" ">> \o Unescape(Tail(s), plus)
    ELSE <<s[1]>> \o Unescape(Tail(s), plus)

\* strings.Cut: the text before the first sep, and the text after it (empty if none)
CutBefore(s, sep) == LET i == Index(s, sep) IN IF i = -1 THEN s ELSE SubSeq(s, 1, i)

CutAfter(s, sep) ==
    LET i == Index(s, sep) IN IF i = -1 THEN <<>> ELSE SubSeq(s, i + Len(sep) + 1, Len(s))

\* url.Parse, the part before "#" and "?"
UrlRest(uri) == CutBefore(CutBefore(uri, Str("#")), Str("?"))

\* url.Parse, URL.RawQuery
UrlRawQuery(uri) == CutAfter(CutBefore(uri, Str("#")), Str("?"))

\* url.Parse returns no error
UrlParseOk(uri) ==
    /\ ~ContainsCTLByte(CutBefore(uri, Str("#")))
    /\ EscapesOk(UrlRest(uri))
    /\ EscapesOk(CutAfter(uri, Str("#")))

\* url.Parse, URL.Path
UrlPath(uri) == Unescape(UrlRest(uri), FALSE)

\* url.ParseQuery as Values.Get uses it: the first value of the key, "" if none.
\* A pair with a ";" or with a bad escape is skipped.
RECURSIVE QueryGet(_, _)
QueryGet(query, name) ==
    IF Len(query) = 0 THEN <<>>
    ELSE LET pair == CutBefore(query, Str("&"))
             rest == CutAfter(query, Str("&"))
             key == CutBefore(pair, Str("="))
             value == CutAfter(pair, Str("="))
         IN IF Contains(pair, Str(";")) \/ pair = <<>> \/ ~EscapesOk(key) \/ ~EscapesOk(value)
            THEN QueryGet(rest, name)
            ELSE IF Unescape(key, TRUE) = name THEN Unescape(value, TRUE)
            ELSE QueryGet(rest, name)

(***************************************************************************)
(* The external collaborators: encoding/json, encoding/xml, compress/gzip *)
(* and compress/flate.                                                     *)
(***************************************************************************)
\* GreetResponse{Student{Nama, Npm}, Greeter}
GreetResponse(greeterName) ==
    [Student |-> [Nama |-> STUDENT_NAME, Npm |-> STUDENT_NPM], Greeter |-> greeterName]

\* encoding/json, a string's characters (HTML-safe escaping is on by default)
JsonChar(c) ==
    CASE c = "\"" -> Str("\\\"")
      [] c = "\\" -> Str("\\\\")
      [] c = "<" -> Str("\\u003c")
      [] c = ">" -> Str("\\u003e")
      [] c = "&" -> Str("\\u0026")
      [] c = "\n" -> Str("\\n")
      [] c = "\r" -> Str("\\r")
      [] c = "\t" -> Str("\\t")
      [] OTHER -> <<c>>

RECURSIVE JsonString(_)
JsonString(s) == IF Len(s) = 0 THEN <<>> ELSE JsonChar(s[1]) \o JsonString(Tail(s))

\* json.Marshal(greetResponse); it returns no error for this struct
JsonMarshal(g) ==
    Str("{\"Student\":{\"Nama\":\"") \o JsonString(g.Student.Nama)
    \o Str("\",\"Npm\":\"") \o JsonString(g.Student.Npm)
    \o Str("\"},\"Greeter\":\"") \o JsonString(g.Greeter) \o Str("\"}")

\* encoding/xml EscapeText
XmlChar(c) ==
    CASE c = "\"" -> Str("&#34;")
      [] c = "'" -> Str("&#39;")
      [] c = "&" -> Str("&amp;")
      [] c = "<" -> Str("&lt;")
      [] c = ">" -> Str("&gt;")
      [] c = "\t" -> Str("&#x9;")
      [] c = "\n" -> Str("&#xA;")
      [] c = "\r" -> Str("&#xD;")
      [] OTHER -> <<c>>

RECURSIVE XmlText(_)
XmlText(s) == IF Len(s) = 0 THEN <<>> ELSE XmlChar(s[1]) \o XmlText(Tail(s))

\* xml.Marshal(greetResponse); it returns no error for this struct
XmlMarshal(g) ==
    Str("<GreetResponse><Student><Nama>") \o XmlText(g.Student.Nama)
    \o Str("</Nama><Npm>") \o XmlText(g.Student.Npm)
    \o Str("</Npm></Student><Greeter>") \o XmlText(g.Greeter)
    \o Str("</Greeter></GreetResponse>")

\* server.go compressDeflate. The bit-level output of compress/flate is not modelled:
\* the compressed form is the data between two opaque bytes.
compressDeflate(data) == <<"flate[">> \o data \o <<"]">>

\* server.go compressGzip: a header, the deflate stream, the CRC-32 and the size
compressGzip(data) == <<"gzip[">> \o compressDeflate(data) \o <<"crc32", "isize">>

(***************************************************************************)
(* The router and the handlers.                                            *)
(***************************************************************************)
HTTP11 == Str("HTTP/1.1")
JSON == Str("application/json")
XML == Str("application/xml")

\* server.go handle404
handle404 == HttpResponse(HTTP11, Str("404"), <<>>, <<>>, 0, <<>>)

\* server.go HandleRequest, the url.Parse error branch
handle400 == HttpResponse(HTTP11, Str("400"), <<>>, <<>>, 0, <<>>)

\* a root handler that asks the negotiator for the encoding
handleRootNegotiated(req) ==
    LET htmlContent == Str("<html><body><h1>Halo, dunia! Aku ") \o STUDENT_NAME
                       \o Str(" sedang mengerjakan A03</h1></body></html>")
        encoding == determineEncoding(req.AcceptEncoding)
        data == IF encoding = Str("gzip") THEN compressGzip(htmlContent)
                ELSE IF encoding = Str("deflate") THEN compressDeflate(htmlContent)
                ELSE htmlContent
    IN HttpResponse(HTTP11, Str("200"), Str("text/html"), encoding, Len(data), data)

\* server.go handleRoot
handleRoot(req) ==
    LET htmlContent == Str("<html><body><h1>Halo, dunia! Aku ") \o STUDENT_NAME
                       \o Str(" sedang mengerjakan A03</h1></body></html>")
    IN HttpResponse(HTTP11, Str("200"), Str("text/html"), Str("none"),
                    Len(htmlContent), htmlContent)

\* a handler that takes the content length before it compresses the body
greetBodyLengthOfPlain(req, greeterName) ==
    LET contentType == determineContentType(req.Accept)
        responseData == IF contentType = Str("application/xml")
                        THEN XmlMarshal(GreetResponse(greeterName))
                        ELSE JsonMarshal(GreetResponse(greeterName))
        encoding == determineEncoding(req.AcceptEncoding)
        finalData == IF encoding = Str("gzip") THEN compressGzip(responseData)
                     ELSE IF encoding = Str("deflate") THEN compressDeflate(responseData)
                     ELSE responseData
        finalEncoding == IF encoding \in {Str("gzip"), Str("deflate")} THEN encoding
                         ELSE Str("none")
    IN HttpResponse(HTTP11, Str("200"),
                    IF contentType = Str("application/xml") THEN contentType
                    ELSE Str("application/json"),
                    finalEncoding, Len(responseData), finalData)

\* server.go handleGreet, from the content type on
greetBody(req, greeterName) ==
    LET contentType == determineContentType(req.Accept)
        responseData == IF contentType = Str("application/xml")
                        THEN XmlMarshal(GreetResponse(greeterName))
                        ELSE JsonMarshal(GreetResponse(greeterName))
        encoding == determineEncoding(req.AcceptEncoding)
        finalData == IF encoding = Str("gzip") THEN compressGzip(responseData)
                     ELSE IF encoding = Str("deflate") THEN compressDeflate(responseData)
                     ELSE responseData
        finalEncoding == IF encoding \in {Str("gzip"), Str("deflate")} THEN encoding
                         ELSE Str("none")
    IN HttpResponse(HTTP11, Str("200"),
                    IF contentType = Str("application/xml") THEN contentType
                    ELSE Str("application/json"),
                    finalEncoding, Len(finalData), finalData)

\* a handler that never reads the name parameter
handleGreetDefaultName(req, path, rawQuery) ==
    LET parts == Split(path, Str("/"))
    IN IF Len(parts) < 3 THEN handle404
       ELSE IF parts[3] # STUDENT_NPM THEN handle404
       ELSE greetBody(req, STUDENT_NAME)

\* a handler that accepts every id the configured one is a prefix of
handleGreetPrefixId(req, path, rawQuery) ==
    LET parts == Split(path, Str("/"))
    IN IF Len(parts) < 3 THEN handle404
       ELSE IF ~HasPrefix(parts[3], STUDENT_NPM) THEN handle404
       ELSE LET nameParam == QueryGet(rawQuery, Str("name"))
            IN greetBody(req, IF nameParam # <<>> THEN nameParam ELSE STUDENT_NAME)

\* server.go handleGreet
handleGreet(req, path, rawQuery) ==
    LET parts == Split(path, Str("/"))
    IN IF Len(parts) < 3 THEN handle404
       ELSE IF parts[3] # STUDENT_NPM THEN handle404
       ELSE LET nameParam == QueryGet(rawQuery, Str("name"))
            IN greetBody(req, IF nameParam # <<>> THEN nameParam ELSE STUDENT_NAME)

\* a router that answers a target it cannot parse like an unknown path
HandleRequestUnparsedNotFound(req) ==
    IF ~UrlParseOk(req.Uri) THEN handle404
    ELSE LET path == UrlPath(req.Uri)
         IN IF path = Str("/") THEN handleRoot(req)
            ELSE IF HasPrefix(path, Str("/greet/"))
                 THEN handleGreet(req, path, UrlRawQuery(req.Uri))
            ELSE handle404

\* server.go HandleRequest
HandleRequest(req) ==
    IF ~UrlParseOk(req.Uri) THEN handle400
    ELSE LET path == UrlPath(req.Uri)
         IN IF path = Str("/") THEN handleRoot(req)
            ELSE IF HasPrefix(path, Str("/greet/"))
                 THEN handleGreet(req, path, UrlRawQuery(req.Uri))
            ELSE handle404

(***************************************************************************)
(* The framers: what the two read loops do after appending a chunk.        *)
(***************************************************************************)
\* a scan that goes on to the next line when a content-length line does not parse
RECURSIVE FetchContentLengthSkipsUnparsable(_, _)
FetchContentLengthSkipsUnparsable(headerLines, i) ==
    IF i > Len(headerLines) THEN 0
    ELSE LET parts == SplitN2(headerLines[i], Str(":"))
             value == TrimSpace(parts[Len(parts)])
         IN IF /\ HasPrefix(ToLower(headerLines[i]), Str("content-length:"))
               /\ Len(parts) = 2
               /\ AtoiOk(value)
            THEN Atoi(value)
            ELSE FetchContentLengthSkipsUnparsable(headerLines, i + 1)

\* client.go Fetch, the loop over headerLines: the first line that starts with
\* "content-length:" decides, and the loop breaks there whether it parses or not
RECURSIVE FetchContentLength(_, _)
FetchContentLength(headerLines, i) ==
    IF i > Len(headerLines) THEN 0
    ELSE IF HasPrefix(ToLower(headerLines[i]), Str("content-length:"))
         THEN LET parts == SplitN2(headerLines[i], Str(":"))
                  value == TrimSpace(parts[2])
              IN IF Len(parts) = 2 /\ AtoiOk(value) THEN Atoi(value) ELSE 0
         ELSE FetchContentLength(headerLines, i + 1)

\* client.go Fetch: contentLength, for a buffer that holds the terminator
DeclaredLength(responseData) ==
    LET headerEndIndex == Index(responseData, CRLFCRLF)
        headers == SubSeq(responseData, 1, headerEndIndex)
    IN FetchContentLength(Split(headers, CRLF), 1)

\* client.go Fetch: currentBodyLength, for a buffer that holds the terminator
CurrentBodyLength(responseData) == Len(responseData) - (Index(responseData, CRLFCRLF) + 4)

\* a framer that takes the message as complete once the terminator is there
FetchCompleteAtTerminator(responseData) == Contains(responseData, CRLFCRLF)

\* client.go Fetch: the first break of the loop body, on a complete message
FetchComplete(responseData) ==
    /\ Contains(responseData, CRLFCRLF)
    /\ \/ DeclaredLength(responseData) = 0
       \/ CurrentBodyLength(responseData) >= DeclaredLength(responseData)

\* a loop that takes a chunk as the last one also when it filled the buffer
FetchStopsOnFullChunk(responseData, n) == FetchComplete(responseData) \/ n <= BUFFER_SIZE

\* a loop that stops on a short chunk only
FetchStopsOnShortChunk(responseData, n) == n < BUFFER_SIZE

\* client.go Fetch: the loop stops after the chunk of n bytes that made responseData
FetchStops(responseData, n) == FetchComplete(responseData) \/ n < BUFFER_SIZE

\* a loop that stops at the terminator only
ServerStopsAtTerminator(requestData, n) == Contains(requestData, CRLFCRLF)

\* server.go HandleConnection: the loop stops after the chunk of n bytes
ServerStops(requestData, n) == Contains(requestData, CRLFCRLF) \/ n < BUFFER_SIZE

(***************************************************************************)
(* The state.                                                              *)
(***************************************************************************)
VARIABLES
    \* one message through the codec and the router
    stage,          \* the last step done
    given,          \* what the run starts from: "request", "bytes" or "response"
    req,            \* client.go main: httpReq, the request record
    requestBytes,   \* client.go Fetch: RequestEncoder(req)
    httpReq,        \* server.go HandleConnection: RequestDecoder(requestData)
    httpRes,        \* server.go HandleConnection: HandleRequest(httpReq)
    responseBytes,  \* server.go HandleConnection: ResponseEncoder(httpRes)
    response,       \* client.go Fetch: ResponseDecoder(responseData)
    \* the negotiator on one raw header value
    negHeader,      \* the raw Accept / Accept-Encoding value
    negType,        \* determineContentType(negHeader), <<>> before the call
    negEncoding,    \* determineEncoding(negHeader), <<>> before the call
    \* the client, client.go main and Fetch, and the peer it talks to
    cpc,            \* where main is: "dial", "write", "read", "returned", "closed", "exit"
    stream,         \* the bytes the peer writes to the connection
    plan,           \* the lengths of the chunks the reads return, in order
    nextChunk,      \* the index in plan of the chunk the next read returns
    peerClosed,     \* the peer has closed its end, after writing stream
    responseData,   \* Fetch: the accumulated buffer
    lastN,          \* Fetch: n of the last read
    lastErr,        \* Fetch: err of the last read: "nil", "EOF" or "error"
    handed,         \* the byte sequences ResponseDecoder was called with, in order
    fetched,        \* what Fetch returned
    wire,           \* the bytes the client has written to the connection
    calls,          \* how many times main and Fetch called Dial, Write, Read and Close
    \* the server, server.go main and one HandleConnection task per connection
    spc,            \* where main is: "listen", "accept" (the loop), "exit"; "idle": not run
    conns,          \* the accepted connections, in the order of their accept
    acceptErrors,   \* how many times listener.Accept returned an error
    trouble         \* an accept, read or write error or a 400/404 answer has happened

codecVars == <<stage, given, req, requestBytes, httpReq, httpRes, responseBytes, response>>
negVars == <<negHeader, negType, negEncoding>>
peerVars == <<stream, plan, peerClosed>>
fetchVars == <<cpc, nextChunk, responseData, lastN, lastErr, handed, fetched, wire, calls>>
clientVars == <<peerVars, fetchVars>>
serverVars == <<spc, conns, acceptErrors, trouble>>
vars == <<codecVars, negVars, clientVars, serverVars>>

\* what the steps of one part of the model leave alone
notCodec == <<negVars, clientVars, serverVars>>
notNeg == <<codecVars, clientVars, serverVars>>
notClient == <<codecVars, negVars, serverVars>>
notServer == <<codecVars, negVars, clientVars>>

CodecIdle ==
    /\ stage = "idle"
    /\ given = "none"
    /\ req = EmptyRequest
    /\ requestBytes = <<>>
    /\ httpReq = EmptyRequest
    /\ httpRes = EmptyResponse
    /\ responseBytes = <<>>
    /\ response = EmptyResponse

NegIdle ==
    /\ negHeader = <<>>
    /\ negType = <<>>
    /\ negEncoding = <<>>

NoCalls == [Dial |-> 0, Write |-> 0, Read |-> 0, Close |-> 0]

ClientIdle ==
    /\ cpc = "idle"
    /\ stream = <<>>
    /\ plan = <<>>
    /\ nextChunk = 1
    /\ peerClosed = FALSE
    /\ responseData = <<>>
    /\ lastN = 0
    /\ lastErr = "nil"
    /\ handed = <<>>
    /\ fetched = EmptyResponse
    /\ wire = <<>>
    /\ calls = NoCalls

ServerIdle ==
    /\ spc = "idle"
    /\ conns = <<>>
    /\ acceptErrors = 0
    /\ trouble = FALSE

(***************************************************************************)
(* Bounds and inputs of the codec specification.                           *)
(***************************************************************************)
\* the longest response body drawn
MaxData == 4

\* every byte sequence of at most n bytes over the alphabet
RECURSIVE BytesUpTo(_, _)
BytesUpTo(alphabet, n) ==
    IF n = 0 THEN {<<>>}
    ELSE LET shorter == BytesUpTo(alphabet, n - 1)
         IN shorter \cup {<<c>> \o b : c \in alphabet, b \in {x \in shorter : Len(x) = n - 1}}

BodyAlphabet == {"\r", "\n", "a"}

GreetPath == Str("/greet/") \o STUDENT_NPM

\* greeter names given in the query
Names == {Str("Ada"), Str("Bob")}

Targets ==
    {GreetPath \o Str("?name=") \o n : n \in Names}
    \cup {Str("/"), Str("/?name=Ada"), GreetPath, GreetPath \o Str("?name="),
          GreetPath \o Str("?x=1&name=A%20B"), GreetPath \o Str("/x"),
          GreetPath \o Str("0"), Str("/greet/123?name=Ada"), Str("/greet/"), Str("/greet"),
          Str("/unknown-path"), Str("/greet/a b"), Str("/%zz"), Str(""),
          GreetPath \o Str("%2"), GreetPath \o Str("?name=%zz"), Str("/%41"),
          Str("/#%zz"), Str("/a\tb")}

Accepts ==
    {Str("application/json"), Str("application/xml"), Str("text/plain"),
     Str("application/json, application/xml"), Str("")}

AcceptEncodings ==
    {Str("none"), Str("gzip"), Str("deflate"), Str("br"), Str(""),
     Str("gzip;q=0.5, deflate")}

\* the records client.go main builds
RequestInputs ==
    {HttpRequest(Str("GET"), u, HTTP11, Str("127.0.0.1:6636"), a, ae) :
        u \in Targets, a \in Accepts, ae \in AcceptEncodings}

\* the Response records of the data model, with any body
ResponseInputs ==
    {HttpResponse(HTTP11, sc, ct, ce, Len(d), d) :
        sc \in {Str("200"), Str("400"), Str("404"), Str("500")},
        ct \in {<<>>, Str("text/html"), Str("application/json"), Str("application/xml")},
        ce \in {<<>>, Str("none"), Str("gzip"), Str("deflate")},
        d \in BytesUpTo(BodyAlphabet, MaxData)}

\* the first lines of the byte sequences a peer sends to the server: no token, one,
\* two, three, four, and three with an empty one
RawRequestLines ==
    {<<>>, Str("GET"), Str("GET /"), Str("GET / HTTP/1.1"), Str("GET / HTTP/1.1 x"),
     Str("GET  /")}

\* the lines that follow: the three headers in any letter case, an empty value,
\* another header, and lines without a colon and a space between name and value
RawHeaderLines ==
    {Str("Host: h"), Str("HOST: h2"), Str("accept: application/xml"),
     Str("Accept-Encoding: gzip"), Str("ACCEPT-ENCODING: br"), Str("Accept-Encoding: "),
     Str("X-Other: v"), Str("Host:h"), Str("Accept")}

\* the ends: nothing, a line end, the terminator, and a header line after the
\* terminator
RawEnds == {<<>>, CRLF, CRLFCRLF, CRLFCRLF \o Str("Host: late")}

\* the byte sequences a peer sends to the server: a first line, at most two more
\* lines and an end; and no byte at all
RawRequests ==
    LET blocks == {<<>>} \cup {CRLF \o h : h \in RawHeaderLines}
                  \cup {CRLF \o h1 \o CRLF \o h2 : h1, h2 \in RawHeaderLines}
    IN {first \o block \o end : first \in RawRequestLines, block \in blocks, end \in RawEnds}

(***************************************************************************)
(* One message through the codec: client encode, server decode, handle,   *)
(* server encode, client decode.                                           *)
(***************************************************************************)
CodecInit ==
    /\ \/ /\ given = "request"
          /\ stage = "request"
          /\ req \in RequestInputs
          /\ requestBytes = <<>>
          /\ httpRes = EmptyResponse
       \/ /\ given = "bytes"
          /\ stage = "requestBytes"
          /\ req = EmptyRequest
          /\ requestBytes \in RawRequests
          /\ httpRes = EmptyResponse
       \/ /\ given = "response"
          /\ stage = "httpRes"
          /\ req = EmptyRequest
          /\ requestBytes = <<>>
          /\ httpRes \in ResponseInputs
    /\ httpReq = EmptyRequest
    /\ responseBytes = <<>>
    /\ response = EmptyResponse
    /\ NegIdle
    /\ ClientIdle
    /\ ServerIdle

\* client.go Fetch: requestBytes := RequestEncoder(req)
EncodeRequest ==
    /\ stage = "request"
    /\ requestBytes' = RequestEncoder(req)
    /\ stage' = "requestBytes"
    /\ UNCHANGED <<given, req, httpReq, httpRes, responseBytes, response, notCodec>>

\* server.go HandleConnection: httpReq := RequestDecoder(requestData)
DecodeRequest ==
    /\ stage = "requestBytes"
    /\ httpReq' = RequestDecoder(requestBytes)
    /\ stage' = "httpReq"
    /\ UNCHANGED <<given, req, requestBytes, httpRes, responseBytes, response, notCodec>>

\* server.go HandleConnection: httpRes := HandleRequest(httpReq)
Handle ==
    /\ stage = "httpReq"
    /\ httpRes' = HandleRequest(httpReq)
    /\ stage' = "httpRes"
    /\ UNCHANGED <<given, req, requestBytes, httpReq, responseBytes, response, notCodec>>

\* server.go HandleConnection: responseBytes := ResponseEncoder(httpRes)
EncodeResponse ==
    /\ stage = "httpRes"
    /\ responseBytes' = ResponseEncoder(httpRes)
    /\ stage' = "responseBytes"
    /\ UNCHANGED <<given, req, requestBytes, httpReq, httpRes, response, notCodec>>

\* client.go Fetch: return ResponseDecoder(responseData)
DecodeResponse ==
    /\ stage = "responseBytes"
    /\ response' = ResponseDecoder(responseBytes)
    /\ stage' = "response"
    /\ UNCHANGED <<given, req, requestBytes, httpReq, httpRes, responseBytes, notCodec>>

CodecNext == EncodeRequest \/ DecodeRequest \/ Handle \/ EncodeResponse \/ DecodeResponse

SpecCodec == CodecInit /\ [][CodecNext]_vars

(***************************************************************************)
(* The negotiator on one raw header value.                                 *)
(***************************************************************************)
\* the most pieces a drawn header value is put together from
MaxPieces == 2

NegPieces ==
    {Str("application/xml"), Str("application/json"), Str("APPLICATION/XML"),
     Str("text/plain"), Str(","), Str(";q=0.5"), Str(";Q=1"), Str(" "),
     Str("gzip"), Str("deflate"), Str("Deflate"), Str("none"), Str("NONE"), Str("br")}

RECURSIVE PiecesUpTo(_)
PiecesUpTo(n) ==
    IF n = 0 THEN {<<>>}
    ELSE LET shorter == PiecesUpTo(n - 1)
         IN shorter \cup {p \o h : p \in NegPieces, h \in shorter}

NegInputs == PiecesUpTo(MaxPieces) \cup Accepts \cup AcceptEncodings

NegInit ==
    /\ negHeader \in NegInputs
    /\ negType = <<>>
    /\ negEncoding = <<>>
    /\ CodecIdle
    /\ ClientIdle
    /\ ServerIdle

\* server.go handleGreet: contentType := determineContentType(req.Accept)
ChooseContentType ==
    /\ negType = <<>>
    /\ negType' = determineContentType(negHeader)
    /\ UNCHANGED <<negHeader, negEncoding, notNeg>>

\* server.go handleGreet: encoding := determineEncoding(req.AcceptEncoding)
ChooseEncoding ==
    /\ negEncoding = <<>>
    /\ negEncoding' = determineEncoding(negHeader)
    /\ UNCHANGED <<negHeader, negType, notNeg>>

NegNext == ChooseContentType \/ ChooseEncoding

SpecNeg == NegInit /\ [][NegNext]_vars

(***************************************************************************)
(* The client: main dials, Fetch writes the request and reads until the   *)
(* framer stops, main closes. The peer's bytes arrive in the chunks of    *)
(* plan; a read past the last chunk blocks until the peer closes.         *)
(***************************************************************************)
\* the most chunks a stream is delivered in
MaxChunks == 3

\* every way to cut len bytes into at most k chunks of 1 .. BUFFER_SIZE bytes
RECURSIVE Plans(_, _)
Plans(len, k) ==
    IF len = 0 THEN {<<>>}
    ELSE IF k = 0 THEN {}
    ELSE UNION {{<<n>> \o rest : rest \in Plans(len - n, k - 1)} :
                    n \in 1..Min(BUFFER_SIZE, len)}

\* the byte streams a peer sends: whole responses of this server, and a response
\* that declares less than it carries, a response cut short, and bytes that are no
\* response
WholeResponses ==
    {ResponseEncoder(handle404),
     ResponseEncoder(HttpResponse(HTTP11, Str("200"), <<>>, <<>>, 3, Str("abc")))}

\* n bytes that are neither CR nor LF
Pad(n) == [i \in 1..n |-> "x"]

\* messages that end exactly at the end of a full chunk, each followed by one more
\* byte: one that declares no length and one that declares its one body byte
FullChunkResponses ==
    {Pad(BUFFER_SIZE - 4) \o CRLFCRLF \o Str("y"),
     Pad(2 * BUFFER_SIZE - 24) \o CRLF \o Str("Content-Length: 1") \o CRLFCRLF
         \o Str("b") \o Str("y")}

\* header blocks with more than one line that looks like a Content-Length, each
\* with a body that ends the stream at the end of the third full chunk; and short
\* ones with a sign, without the space, and with a name that only resembles it
LengthResponses ==
    {head \o CRLFCRLF \o Pad(3 * BUFFER_SIZE - Len(head) - 4) :
        head \in {Str("Content-Length: x\r\nContent-Length: 9"),
                  Str("CONTENT-LENGTH:10\r\ncontent-length: 1"),
                  Str("X-Content-Length: 9\r\nA: content-length:9")}}
    \cup {Str("content-length:+2\r\n\r\nab"), Str("Content-Length : 3\r\n\r\n")}

\* responses with a status line whose Content-Length line is spelled without the
\* space, with two spaces, and twice with different values
SpelledLengthResponses ==
    {Str("HTTP/1.1 200 OK\r\nContent-Length:2\r\n\r\nab"),
     Str("HTTP/1.1 200 OK\r\nContent-Length:  2\r\n\r\nab"),
     Str("V 2 K\r\nContent-Length: 1\r\nContent-Length: 2\r\n\r\na")}

Streams ==
    WholeResponses \cup FullChunkResponses \cup LengthResponses \cup
    SpelledLengthResponses \cup
    {ResponseEncoder(HttpResponse(HTTP11, Str("200"), <<>>, <<>>, 1, Str("abc"))),
     SubSeq(ResponseEncoder(HttpResponse(HTTP11, Str("200"), <<>>, <<>>, 3, Str("abc"))),
            1, 2 * BUFFER_SIZE),
     Str("Content-Length: 2\r\n\r\nab"),
     Str("Content-Length: 20\r\n\r\n") \o [i \in 1..20 |-> "x"],
     [i \in 1..BUFFER_SIZE |-> "x"],
     Str("hello"),
     <<>>}

\* the request the client sends
ClientRequest ==
    HttpRequest(Str("GET"), Str("/"), HTTP11, Str("127.0.0.1:6636"), JSON, Str("none"))

\* the bytes the reads have returned so far
RECURSIVE Sum(_, _)
Sum(lens, k) == IF k = 0 THEN 0 ELSE lens[k] + Sum(lens, k - 1)

Delivered == Sum(plan, nextChunk - 1)

ClientInit ==
    /\ cpc = "dial"
    /\ stream \in Streams
    /\ plan \in Plans(Len(stream), MaxChunks)
    /\ nextChunk = 1
    /\ peerClosed = FALSE
    /\ responseData = <<>>
    /\ lastN = 0
    /\ lastErr = "nil"
    /\ handed = <<>>
    /\ fetched = EmptyResponse
    /\ wire = <<>>
    /\ calls = NoCalls
    /\ CodecIdle
    /\ NegIdle
    /\ ServerIdle

\* client.go main: net.Dial succeeds
DialOk ==
    /\ cpc = "dial"
    /\ cpc' = "write"
    /\ calls' = [calls EXCEPT !.Dial = @ + 1]
    /\ UNCHANGED <<nextChunk, responseData, lastN, lastErr, handed, fetched, wire,
                   peerVars, notClient>>

\* client.go main: net.Dial fails, main returns
DialError ==
    /\ cpc = "dial"
    /\ cpc' = "exit"
    /\ calls' = [calls EXCEPT !.Dial = @ + 1]
    /\ UNCHANGED <<nextChunk, responseData, lastN, lastErr, handed, fetched, wire,
                   peerVars, notClient>>

\* client.go Fetch: connection.Write(RequestEncoder(req)) succeeds
WriteOk ==
    /\ cpc = "write"
    /\ cpc' = "read"
    /\ wire' = wire \o RequestEncoder(ClientRequest)
    /\ calls' = [calls EXCEPT !.Write = @ + 1]
    /\ UNCHANGED <<nextChunk, responseData, lastN, lastErr, handed, fetched,
                   peerVars, notClient>>

\* a Fetch that sends the request once more when Write fails
WriteErrorResends ==
    /\ cpc = "write"
    /\ cpc' = IF calls.Write = 0 THEN "write" ELSE "returned"
    /\ fetched' = EmptyResponse
    /\ calls' = [calls EXCEPT !.Write = @ + 1]
    /\ UNCHANGED <<nextChunk, responseData, lastN, lastErr, handed, wire,
                   peerVars, notClient>>

\* client.go Fetch: connection.Write fails, Fetch returns HttpResponse{}
WriteError ==
    /\ cpc = "write"
    /\ cpc' = "returned"
    /\ fetched' = EmptyResponse
    /\ calls' = [calls EXCEPT !.Write = @ + 1]
    /\ UNCHANGED <<nextChunk, responseData, lastN, lastErr, handed, wire,
                   peerVars, notClient>>

\* Fetch leaves the loop: return ResponseDecoder(responseData)
FetchReturns(data) ==
    /\ cpc' = "returned"
    /\ handed' = Append(handed, data)
    /\ fetched' = ResponseDecoder(data)

\* client.go Fetch, one turn of the loop: Read returns the next chunk and no error
ReadChunk ==
    /\ cpc = "read"
    /\ nextChunk <= Len(plan)
    /\ LET n == plan[nextChunk]
           data == responseData \o SubSeq(stream, Delivered + 1, Delivered + n)
       IN /\ responseData' = data
          /\ lastN' = n
          /\ lastErr' = "nil"
          /\ IF FetchStops(data, n)
             THEN FetchReturns(data)
             ELSE cpc' = "read" /\ UNCHANGED <<handed, fetched>>
    /\ nextChunk' = nextChunk + 1
    /\ calls' = [calls EXCEPT !.Read = @ + 1]
    /\ UNCHANGED <<wire, peerVars, notClient>>

\* client.go Fetch, one turn of the loop: Read returns the next chunk and an error;
\* the loop breaks before the append
ReadChunkError ==
    /\ cpc = "read"
    /\ nextChunk <= Len(plan)
    /\ lastN' = plan[nextChunk]
    /\ lastErr' = "error"
    /\ nextChunk' = nextChunk + 1
    /\ FetchReturns(responseData)
    /\ calls' = [calls EXCEPT !.Read = @ + 1]
    /\ UNCHANGED <<responseData, wire, peerVars, notClient>>

\* client.go Fetch, one turn of the loop: the peer has closed and all its bytes
\* were read: Read returns 0 and io.EOF
ReadEOF ==
    /\ cpc = "read"
    /\ nextChunk > Len(plan)
    /\ peerClosed
    /\ lastN' = 0
    /\ lastErr' = "EOF"
    /\ FetchReturns(responseData)
    /\ calls' = [calls EXCEPT !.Read = @ + 1]
    /\ UNCHANGED <<nextChunk, responseData, wire, peerVars, notClient>>

\* client.go Fetch, one turn of the loop: Read returns 0 and an error
ReadError ==
    /\ cpc = "read"
    /\ lastN' = 0
    /\ lastErr' = "error"
    /\ FetchReturns(responseData)
    /\ calls' = [calls EXCEPT !.Read = @ + 1]
    /\ UNCHANGED <<nextChunk, responseData, wire, peerVars, notClient>>

\* client.go main: Fetch has returned, main prints and its deferred Close runs
ClientClose ==
    /\ cpc = "returned"
    /\ cpc' = "closed"
    /\ calls' = [calls EXCEPT !.Close = @ + 1]
    /\ UNCHANGED <<nextChunk, responseData, lastN, lastErr, handed, fetched, wire,
                   peerVars, notClient>>

\* the peer closes its end; the bytes it wrote are still delivered
PeerClose ==
    /\ cpc \in {"write", "read"}
    /\ ~peerClosed
    /\ peerClosed' = TRUE
    /\ UNCHANGED <<stream, plan, fetchVars, notClient>>

ClientNext ==
    \/ DialOk \/ DialError \/ WriteOk \/ WriteError
    \/ ReadChunk \/ ReadChunkError \/ ReadEOF \/ ReadError
    \/ ClientClose \/ PeerClose

SpecClient == ClientInit /\ [][ClientNext]_vars

(***************************************************************************)
(* The server: main listens and loops on Accept; every accepted           *)
(* connection gets its own HandleConnection task, which reads until the   *)
(* framer stops, decodes, handles, encodes, writes and closes. A peer's   *)
(* bytes arrive in chunks of any length up to the read buffer; a read     *)
(* with nothing left to deliver blocks until the peer closes.             *)
(***************************************************************************)
\* the most connections accepted
MaxConns == 2

\* the most errors listener.Accept returns
MaxAcceptErrors == 1

\* where a peer's stream is cut when it arrives in two pieces
ServerSplits == {5, 14}

\* the byte streams a peer sends: the root request, a target that does not parse,
\* a request that fills one buffer and a bit and never ends its headers, and nothing
ServerStreams ==
    {Str("GET / HTTP/1.1\r\n\r\n"), Str("GET /% V\r\n\r\n"),
     Str("GET / HTTP/1.1\r\n") \o Pad(BUFFER_SIZE - 15), <<>>}

\* the chunks Read returns when all len bytes are waiting: the buffer is filled
\* until less than a buffer is left
RECURSIVE FullReads(_)
FullReads(len) ==
    IF len = 0 THEN <<>>
    ELSE IF len <= BUFFER_SIZE THEN <<len>>
    ELSE <<BUFFER_SIZE>> \o FullReads(len - BUFFER_SIZE)

\* a peer: the stream it sends and the lengths of the chunks it arrives in
ServerPeers ==
    {[stream |-> s, plan |-> FullReads(Len(s))] : s \in ServerStreams}
    \cup {peer \in {[stream |-> s, plan |-> <<k>> \o FullReads(Len(s) - Min(k, Len(s)))] :
                        s \in ServerStreams, k \in ServerSplits} :
              /\ peer.plan[1] <= BUFFER_SIZE
              /\ peer.plan[1] < Len(peer.stream)}

\* a connection just accepted, its task at the top of the read loop
NewConn(peer, born) ==
    [pc |-> "read", stream |-> peer.stream, plan |-> peer.plan, nextChunk |-> 1,
     peerClosed |-> FALSE, requestData |-> <<>>, lastN |-> 0, lastErr |-> "nil",
     httpReq |-> EmptyRequest, httpRes |-> EmptyResponse, responseBytes |-> <<>>,
     written |-> <<>>, writeErr |-> "nil", reads |-> 0, writes |-> 0, closes |-> 0,
     afterTrouble |-> born]

\* the bytes of connection c's stream that Read has returned so far
ServerDelivered(c) == Sum(conns[c].plan, conns[c].nextChunk - 1)

Init ==
    /\ spc = "listen"
    /\ conns = <<>>
    /\ acceptErrors = 0
    /\ trouble = FALSE
    /\ CodecIdle
    /\ NegIdle
    /\ ClientIdle

\* server.go main: net.Listen succeeds, main enters the loop
ListenOk ==
    /\ spc = "listen"
    /\ spc' = "accept"
    /\ UNCHANGED <<conns, acceptErrors, trouble, notServer>>

\* server.go main: net.Listen fails, main returns
ListenError ==
    /\ spc = "listen"
    /\ spc' = "exit"
    /\ UNCHANGED <<conns, acceptErrors, trouble, notServer>>

\* a main that returns when Accept fails
AcceptErrorReturns ==
    /\ spc = "accept"
    /\ acceptErrors < MaxAcceptErrors
    /\ acceptErrors' = acceptErrors + 1
    /\ trouble' = TRUE
    /\ spc' = "exit"
    /\ UNCHANGED <<conns, notServer>>

\* server.go main: listener.Accept returns a connection: go HandleConnection(connection)
AcceptOk ==
    /\ spc = "accept"
    /\ Len(conns) < MaxConns
    /\ \E peer \in ServerPeers : conns' = Append(conns, NewConn(peer, trouble))
    /\ UNCHANGED <<spc, acceptErrors, trouble, notServer>>

\* server.go main: listener.Accept returns an error: continue
AcceptError ==
    /\ spc = "accept"
    /\ acceptErrors < MaxAcceptErrors
    /\ acceptErrors' = acceptErrors + 1
    /\ trouble' = TRUE
    /\ UNCHANGED <<spc, conns, notServer>>

\* server.go HandleConnection, one turn of the loop: Read returns n bytes, no error
ServerReadChunk(c) ==
    /\ conns[c].pc = "read"
    /\ conns[c].nextChunk <= Len(conns[c].plan)
    /\ LET n == conns[c].plan[conns[c].nextChunk]
           data == conns[c].requestData
                   \o SubSeq(conns[c].stream, ServerDelivered(c) + 1,
                             ServerDelivered(c) + n)
       IN conns' = [conns EXCEPT ![c].requestData = data,
                                 ![c].nextChunk = @ + 1,
                                 ![c].lastN = n,
                                 ![c].lastErr = "nil",
                                 ![c].reads = @ + 1,
                                 ![c].pc = IF ServerStops(data, n) THEN "decode"
                                           ELSE "read"]
    /\ UNCHANGED <<spc, acceptErrors, trouble, notServer>>

\* a task that returns on a read error without closing its connection
ServerReadChunkErrorNoClose(c) ==
    /\ conns[c].pc = "read"
    /\ conns[c].nextChunk <= Len(conns[c].plan)
    /\ conns' = [conns EXCEPT ![c].nextChunk = @ + 1,
                              ![c].lastN = conns[c].plan[conns[c].nextChunk],
                              ![c].lastErr = "error",
                              ![c].reads = @ + 1,
                              ![c].pc = "closed"]
    /\ trouble' = TRUE
    /\ UNCHANGED <<spc, acceptErrors, notServer>>

\* server.go HandleConnection, one turn of the loop: Read returns n bytes and an
\* error: the task prints it and returns
ServerReadChunkError(c) ==
    /\ conns[c].pc = "read"
    /\ conns[c].nextChunk <= Len(conns[c].plan)
    /\ conns' = [conns EXCEPT ![c].nextChunk = @ + 1,
                              ![c].lastN = conns[c].plan[conns[c].nextChunk],
                              ![c].lastErr = "error",
                              ![c].reads = @ + 1,
                              ![c].pc = "close"]
    /\ trouble' = TRUE
    /\ UNCHANGED <<spc, acceptErrors, notServer>>

\* server.go HandleConnection, one turn of the loop: the peer has closed and all
\* its bytes were read: Read returns 0 and io.EOF, the loop breaks
ServerReadEOF(c) ==
    /\ conns[c].pc = "read"
    /\ conns[c].nextChunk > Len(conns[c].plan)
    /\ conns[c].peerClosed
    /\ conns' = [conns EXCEPT ![c].lastN = 0,
                              ![c].lastErr = "EOF",
                              ![c].reads = @ + 1,
                              ![c].pc = "decode"]
    /\ UNCHANGED <<spc, acceptErrors, trouble, notServer>>

\* server.go HandleConnection, one turn of the loop: Read returns 0 and an error,
\* the loop breaks
ServerReadError(c) ==
    /\ conns[c].pc = "read"
    /\ conns' = [conns EXCEPT ![c].lastN = 0,
                              ![c].lastErr = "error",
                              ![c].reads = @ + 1,
                              ![c].pc = "decode"]
    /\ trouble' = TRUE
    /\ UNCHANGED <<spc, acceptErrors, notServer>>

\* a task that decodes one buffer shared by all tasks, the first connection's
ServerDecodeShared(c) ==
    /\ conns[c].pc = "decode"
    /\ conns' = [conns EXCEPT ![c].httpReq = RequestDecoder(conns[1].requestData),
                              ![c].pc = "handle"]
    /\ UNCHANGED <<spc, acceptErrors, trouble, notServer>>

\* server.go HandleConnection: httpReq := RequestDecoder(requestData)
ServerDecode(c) ==
    /\ conns[c].pc = "decode"
    /\ conns' = [conns EXCEPT ![c].httpReq = RequestDecoder(conns[c].requestData),
                              ![c].pc = "handle"]
    /\ UNCHANGED <<spc, acceptErrors, trouble, notServer>>

\* server.go HandleConnection: httpRes := HandleRequest(httpReq)
ServerHandle(c) ==
    /\ conns[c].pc = "handle"
    /\ LET res == HandleRequest(conns[c].httpReq)
       IN /\ conns' = [conns EXCEPT ![c].httpRes = res, ![c].pc = "encode"]
          /\ trouble' = (trouble \/ res.StatusCode # Str("200"))
    /\ UNCHANGED <<spc, acceptErrors, notServer>>

\* server.go HandleConnection: responseBytes := ResponseEncoder(httpRes)
ServerEncode(c) ==
    /\ conns[c].pc = "encode"
    /\ conns' = [conns EXCEPT ![c].responseBytes = ResponseEncoder(conns[c].httpRes),
                              ![c].pc = "write"]
    /\ UNCHANGED <<spc, acceptErrors, trouble, notServer>>

\* server.go HandleConnection: connection.Write(responseBytes) succeeds
ServerWriteOk(c) ==
    /\ conns[c].pc = "write"
    /\ conns' = [conns EXCEPT ![c].written = @ \o conns[c].responseBytes,
                              ![c].writes = @ + 1,
                              ![c].pc = "close"]
    /\ UNCHANGED <<spc, acceptErrors, trouble, notServer>>

\* server.go HandleConnection: connection.Write fails; the result is not looked at
ServerWriteError(c) ==
    /\ conns[c].pc = "write"
    /\ conns' = [conns EXCEPT ![c].writeErr = "error",
                              ![c].writes = @ + 1,
                              ![c].pc = "close"]
    /\ trouble' = TRUE
    /\ UNCHANGED <<spc, acceptErrors, notServer>>

\* a task that returns and leaves its connection open
ServerCloseLeavesOpen(c) ==
    /\ conns[c].pc = "close"
    /\ conns' = [conns EXCEPT ![c].pc = "closed"]
    /\ UNCHANGED <<spc, acceptErrors, trouble, notServer>>

\* server.go HandleConnection returns: the deferred connection.Close()
ServerClose(c) ==
    /\ conns[c].pc = "close"
    /\ conns' = [conns EXCEPT ![c].closes = @ + 1, ![c].pc = "closed"]
    /\ UNCHANGED <<spc, acceptErrors, trouble, notServer>>

\* the peer of connection c closes its end; the bytes it wrote are still delivered
ServerPeerClose(c) ==
    /\ conns[c].pc = "read"
    /\ ~conns[c].peerClosed
    /\ conns' = [conns EXCEPT ![c].peerClosed = TRUE]
    /\ UNCHANGED <<spc, acceptErrors, trouble, notServer>>

Next ==
    \/ ListenOk
    \/ ListenError
    \/ AcceptOk
    \/ AcceptError
    \/ \E c \in 1..Len(conns) : ServerReadChunk(c)
    \/ \E c \in 1..Len(conns) : ServerReadChunkError(c)
    \/ \E c \in 1..Len(conns) : ServerReadEOF(c)
    \/ \E c \in 1..Len(conns) : ServerReadError(c)
    \/ \E c \in 1..Len(conns) : ServerDecode(c)
    \/ \E c \in 1..Len(conns) : ServerHandle(c)
    \/ \E c \in 1..Len(conns) : ServerEncode(c)
    \/ \E c \in 1..Len(conns) : ServerWriteOk(c)
    \/ \E c \in 1..Len(conns) : ServerWriteError(c)
    \/ \E c \in 1..Len(conns) : ServerClose(c)
    \/ \E c \in 1..Len(conns) : ServerPeerClose(c)

Spec == Init /\ [][Next]_vars

(***************************************************************************)
(* The two read loops side by side: a behaviour is a run of the client or *)
(* a run of the server.                                                    *)
(***************************************************************************)
LoopsInit == ClientInit \/ Init

LoopsNext == ClientNext \/ Next

SpecLoops == LoopsInit /\ [][LoopsNext]_vars

(***************************************************************************)
(* The two read loops under fair scheduling. The runtime runs main and     *)
(* every task, so a step of the program that can be taken is taken, and    *)
(* Dial, Write and Close return. That a Read returns, with bytes, with the *)
(* end of the stream or with an error, is the assumption of a peer that    *)
(* does not stall. Nothing makes a peer close, and nothing makes main      *)
(* accept another connection.                                              *)
(*                                                                         *)
(* Weak fairness of an action A is []<>~ENABLED <<A>>_vars \/              *)
(* []<><<A>>_vars. For the steps that run a decoder it is written in that  *)
(* form with the enabling condition spelled out (a Read can return         *)
(* whenever the loop is at its Read, the decoder can run whenever the task *)
(* is at it, and both change the state), for the others as WF_vars.        *)
(***************************************************************************)
\* the steps of the client other than a Read returning
ClientProgram == DialOk \/ DialError \/ WriteOk \/ WriteError \/ ClientClose

\* the client's Read returns
ReadReturns == ReadChunk \/ ReadChunkError \/ ReadEOF \/ ReadError

\* connection c exists and its task is at pc
ServerAt(c, pc) == c \in 1..Len(conns) /\ conns[c].pc = pc

\* the steps of connection c's task after the decoder
ServerTask(c) ==
    /\ c \in 1..Len(conns)
    /\ \/ ServerHandle(c) \/ ServerEncode(c)
       \/ ServerWriteOk(c) \/ ServerWriteError(c) \/ ServerClose(c)

\* connection c's task decodes what it read
ServerDecodes(c) == c \in 1..Len(conns) /\ ServerDecode(c)

\* the Read of connection c's task returns
ServerReadReturns(c) ==
    /\ c \in 1..Len(conns)
    /\ \/ ServerReadChunk(c) \/ ServerReadChunkError(c)
       \/ ServerReadEOF(c) \/ ServerReadError(c)

\* the most connections accepted in the runs checked for termination
MaxLiveConns == 1

\* the steps of the client and of the server, main accepting MaxLiveConns connections
LiveNext ==
    \/ ClientNext
    \/ ListenOk
    \/ ListenError
    \/ Len(conns) < MaxLiveConns /\ AcceptOk
    \/ AcceptError
    \/ \E c \in 1..Len(conns) : ServerReadChunk(c)
    \/ \E c \in 1..Len(conns) : ServerReadChunkError(c)
    \/ \E c \in 1..Len(conns) : ServerReadEOF(c)
    \/ \E c \in 1..Len(conns) : ServerReadError(c)
    \/ \E c \in 1..Len(conns) : ServerDecode(c)
    \/ \E c \in 1..Len(conns) : ServerHandle(c)
    \/ \E c \in 1..Len(conns) : ServerEncode(c)
    \/ \E c \in 1..Len(conns) : ServerWriteOk(c)
    \/ \E c \in 1..Len(conns) : ServerWriteError(c)
    \/ \E c \in 1..Len(conns) : ServerClose(c)
    \/ \E c \in 1..Len(conns) : ServerPeerClose(c)

SpecLive ==
    /\ LoopsInit
    /\ [][LiveNext]_vars
    /\ WF_vars(ClientProgram)
    /\ []<>(cpc # "read") \/ []<><<ReadReturns>>_vars
    /\ \A c \in 1..MaxLiveConns :
           /\ WF_vars(ServerTask(c))
           /\ []<>(~ServerAt(c, "decode")) \/ []<><<ServerDecodes(c)>>_vars
           /\ []<>(~ServerAt(c, "read")) \/ []<><<ServerReadReturns(c)>>_vars

(***************************************************************************)
(* The claims on the codec, the negotiator and the router.                 *)
(***************************************************************************)
\* C1: decoding the encoding of a Request record gives back its method, target,
\* version, host, accept and accept-encoding (the omitted Accept-Encoding header of
\* "none" decodes to "none").
C1_RequestRoundTrip ==
    (given = "request" /\ stage \notin {"request", "requestBytes"}) => httpReq = req

\* C2: the Data of the decoded encoding of a Response record is the record's Data,
\* byte for byte, whatever CR and LF bytes the body holds.
C2_BodyRoundTrip == stage = "response" => response.Data = httpRes.Data

\* a body made of CR LF CR LF has gone through the encoder and the decoder
C2_Witness ==
    /\ stage = "response"
    /\ given = "response"
    /\ httpRes.Data = CRLFCRLF
    /\ response.Data = CRLFCRLF

\* C3 as stated: the decoded encoding of a Response record has the record's version,
\* status code, content-type, content-encoding and content-length.
C3_HeaderRoundTripExact ==
    stage = "response" =>
        /\ response.Version = httpRes.Version
        /\ response.StatusCode = httpRes.StatusCode
        /\ response.ContentType = httpRes.ContentType
        /\ response.ContentEncoding = httpRes.ContentEncoding
        /\ response.ContentLength = httpRes.ContentLength

\* C3 as amended: version, status code, content-type and content-length come back
\* exactly; content-encoding comes back exactly when it is "", gzip or deflate, and
\* "none" comes back as "" (its header is not written).
C3_HeaderRoundTrip ==
    stage = "response" =>
        /\ response.Version = httpRes.Version
        /\ response.StatusCode = httpRes.StatusCode
        /\ response.ContentType = httpRes.ContentType
        /\ response.ContentEncoding =
               (IF httpRes.ContentEncoding = Str("none") THEN <<>>
                ELSE httpRes.ContentEncoding)
        /\ response.ContentLength = httpRes.ContentLength

\* a record with content-encoding "none" and a content type has been decoded
C3_Witness ==
    /\ stage = "response"
    /\ given = "response"
    /\ httpRes.ContentEncoding = Str("none")
    /\ httpRes.ContentType = Str("application/xml")
    /\ httpRes.StatusCode = Str("500")
    /\ response.ContentEncoding = <<>>
    /\ response.ContentType = Str("application/xml")

\* C6: with the Accept value lower-cased, a comma or "q=" gives JSON; otherwise
\* "application/xml" in it gives XML; otherwise JSON. Nothing else is returned.
C6_ContentType ==
    negType # <<>> =>
        LET a == ToLower(negHeader)
            multi == Contains(a, Str(",")) \/ Contains(a, Str("q="))
        IN /\ negType \in {JSON, XML}
           /\ multi => negType = JSON
           /\ (~multi /\ Contains(a, XML)) => negType = XML
           /\ (~multi /\ ~Contains(a, XML)) => negType = JSON
           /\ negHeader = Str("application/json, application/xml") => negType = JSON
           /\ negHeader = Str("application/xml") => negType = XML
           /\ negHeader \in {Str("text/plain"), JSON, <<>>} => negType = JSON

\* both an XML answer and the comma rule overriding application/xml are reached
C6_Witness ==
    /\ negHeader = Str("APPLICATION/XML,")
    /\ negType = JSON

\* C7: with the Accept-Encoding value lower-cased, a comma or "q=" gives gzip;
\* otherwise "deflate" in it gives deflate; otherwise "gzip" in it gives gzip;
\* otherwise the exact value "none" gives none; everything else gives gzip.
C7_Encoding ==
    negEncoding # <<>> =>
        LET a == ToLower(negHeader)
            multi == Contains(a, Str(",")) \/ Contains(a, Str("q="))
            hasDeflate == Contains(a, Str("deflate"))
            hasGzip == Contains(a, Str("gzip"))
        IN /\ negEncoding \in {Str("gzip"), Str("deflate"), Str("none")}
           /\ multi => negEncoding = Str("gzip")
           /\ (~multi /\ hasDeflate) => negEncoding = Str("deflate")
           /\ (~multi /\ ~hasDeflate /\ hasGzip) => negEncoding = Str("gzip")
           /\ (~multi /\ ~hasDeflate /\ ~hasGzip) =>
                  negEncoding = (IF a = Str("none") THEN Str("none") ELSE Str("gzip"))
           /\ negHeader = Str("gzip;q=0.5, deflate") => negEncoding = Str("gzip")
           /\ negHeader = Str("deflate") => negEncoding = Str("deflate")
           /\ negHeader = Str("none") => negEncoding = Str("none")
           /\ negHeader \in {Str("br"), <<>>, Str("none ")} => negEncoding = Str("gzip")

\* an unknown encoding has fallen back to gzip
C7_Witness ==
    /\ negHeader = Str("br")
    /\ negEncoding = Str("gzip")

\* the JSON text of {student:{configured name, valid id}, greeter}
GreetingJson(greeter) ==
    Str("{\"Student\":{\"Nama\":\"Muhammad Raihan Maulana\",\"Npm\":\"2306216636\"},\"Greeter\":\"")
    \o greeter \o Str("\"}")

\* the greeter the target asks for: the name given, the configured name when the
\* parameter is absent or empty
AskedGreeter(target) ==
    IF \E n \in Names : target = Str("/greet/2306216636?name=") \o n
    THEN CHOOSE n \in Names : target = Str("/greet/2306216636?name=") \o n
    ELSE Str("Muhammad Raihan Maulana")

GreetId(path) == CutBefore(SubSeq(path, 8, Len(path)), Str("/"))

\* C9: a request whose path is /greet/<id> with an id other than the configured one,
\* or whose path is neither "/" nor under /greet/, is answered 404, HTTP/1.1, with no
\* body, content-length 0, no content-type and no content-encoding, whatever its
\* Accept and Accept-Encoding are.
C9_NotFound ==
    (/\ given = "request"
     /\ stage \in {"httpRes", "responseBytes", "response"}
     /\ UrlParseOk(httpReq.Uri)
     /\ LET path == UrlPath(httpReq.Uri)
        IN \/ HasPrefix(path, Str("/greet/")) /\ GreetId(path) # Str("2306216636")
           \/ path # Str("/") /\ ~HasPrefix(path, Str("/greet/")))
    => httpRes = [Version |-> Str("HTTP/1.1"), StatusCode |-> Str("404"),
                  ContentType |-> <<>>, ContentEncoding |-> <<>>,
                  ContentLength |-> 0, Data |-> <<>>]

\* a wrong id asked for XML under gzip has been answered 404
C9_Witness ==
    /\ stage = "response"
    /\ httpReq.Uri = Str("/greet/123?name=Ada")
    /\ httpReq.Accept = XML
    /\ httpReq.AcceptEncoding = Str("gzip")
    /\ httpRes.StatusCode = Str("404")
    /\ response.StatusCode = Str("404")
    /\ response.Data = <<>>

(***************************************************************************)
(* The claims on the client's read loop.                                   *)
(***************************************************************************)
\* Fetch has called ResponseDecoder, and no read before that returned an error
FetchDecoded == cpc \in {"returned", "closed"} /\ Len(handed) = 1

\* C4 as stated: when a response arrives in three chunks and the third is shorter
\* than the read buffer, the decoder gets the three chunks' concatenation and the
\* loop has read three times.
C4_ThreeChunksAnySplit ==
    (/\ FetchDecoded
     /\ lastErr = "nil"
     /\ stream \in WholeResponses
     /\ Len(plan) = 3
     /\ plan[3] < BUFFER_SIZE)
    => /\ handed[1] = stream
       /\ calls.Read = 3

\* C4 as amended: when the stream arrives in three chunks, the first two fill the
\* read buffer and complete no message, and the third is shorter than the read
\* buffer, the decoder gets the three chunks' concatenation and the loop has read
\* three times.
C4_ThreeChunks ==
    (/\ FetchDecoded
     /\ lastErr = "nil"
     /\ Len(plan) = 3
     /\ plan[1] = BUFFER_SIZE
     /\ plan[2] = BUFFER_SIZE
     /\ plan[3] < BUFFER_SIZE
     /\ ~FetchComplete(SubSeq(stream, 1, BUFFER_SIZE))
     /\ ~FetchComplete(SubSeq(stream, 1, 2 * BUFFER_SIZE)))
    => /\ handed[1] = stream
       /\ calls.Read = 3

\* a response of this server came in two full chunks and a short one, and was
\* handed over whole after the third read
C4_Witness ==
    /\ cpc = "returned"
    /\ stream = ResponseEncoder(HttpResponse(HTTP11, Str("200"), <<>>, <<>>, 3, Str("abc")))
    /\ plan = <<BUFFER_SIZE, BUFFER_SIZE, Len(stream) - 2 * BUFFER_SIZE>>
    /\ handed = <<stream>>
    /\ calls.Read = 3
    /\ fetched.Data = Str("abc")

\* the bytes lack the terminator, or hold fewer body bytes than they declare
Incomplete(bytes) ==
    \/ ~Contains(bytes, CRLFCRLF)
    \/ CurrentBodyLength(bytes) < DeclaredLength(bytes)

\* C5 as stated: of a response the peer sends whole, the decoder gets an incomplete
\* part only when the stream has ended (a read returned end of stream or an error).
C5_PartialOnlyAtEndOfStream ==
    (FetchDecoded /\ stream \in WholeResponses /\ Incomplete(handed[1])) => lastErr # "nil"

\* C5 as amended: the decoder gets an incomplete message only when a read returned
\* end of stream or an error, or the last chunk was shorter than the read buffer;
\* after a chunk that filled the buffer and left the message incomplete, the loop
\* is still reading.
C5_PartialOnlyAtShortChunk ==
    /\ (FetchDecoded /\ Incomplete(handed[1])) =>
           (lastErr # "nil" \/ lastN < BUFFER_SIZE)
    /\ (/\ cpc \in {"read", "returned", "closed"}
        /\ calls.Read > 0
        /\ lastErr = "nil"
        /\ lastN = BUFFER_SIZE
        /\ Incomplete(responseData)) => cpc = "read"

\* the loop has stopped on a short chunk with the peer open and bytes left to come
C5_Witness ==
    /\ cpc = "returned"
    /\ FetchDecoded
    /\ Incomplete(handed[1])
    /\ lastErr = "nil"
    /\ lastN < BUFFER_SIZE
    /\ ~peerClosed
    /\ stream \in WholeResponses
    /\ Delivered < Len(stream)

(***************************************************************************)
(* The claims on the server's accept loop.                                 *)
(***************************************************************************)
\* C10: no per-connection event ends the accept loop. Once an accept error, a
\* read error, a 400/404 answer or a write failure has happened, main is still in
\* its loop (main returns only when Listen failed, before any connection); and a
\* connection accepted after such an event is serviced as if nothing had happened:
\* when its own reads and write did not fail, what it wrote is the encoded answer
\* to the decoded bytes it read from its own peer, and it was closed once.
C10_AcceptLoopSurvives ==
    /\ trouble => spc = "accept"
    /\ spc = "exit" => (conns = <<>> /\ acceptErrors = 0)
    /\ \A c \in 1..Len(conns) :
           (/\ conns[c].afterTrouble
            /\ conns[c].pc = "closed"
            /\ conns[c].lastErr # "error"
            /\ conns[c].writeErr = "nil")
           => /\ conns[c].requestData
                     = SubSeq(conns[c].stream, 1, Len(conns[c].requestData))
              /\ conns[c].written
                     = ResponseEncoder(HandleRequest(RequestDecoder(conns[c].requestData)))
              /\ conns[c].writes = 1
              /\ conns[c].closes = 1

\* an accept failed, the first connection was answered 400 and its write failed,
\* and the second connection, accepted after all that, got the whole 200 answer
C10_Witness ==
    /\ spc = "accept"
    /\ acceptErrors = 1
    /\ Len(conns) = 2
    /\ conns[1].httpRes.StatusCode = Str("400")
    /\ conns[1].writeErr = "error"
    /\ conns[1].pc = "closed"
    /\ conns[2].afterTrouble
    /\ conns[2].pc = "closed"
    /\ conns[2].httpRes.StatusCode = Str("200")
    /\ conns[2].written = ResponseEncoder(conns[2].httpRes)
    /\ Len(conns[2].httpRes.Data) > 0

(***************************************************************************)
(* The claims on the connection tasks of the server.                       *)
(***************************************************************************)
\* C11: connections are serviced concurrently and independently. Whatever the
\* connections are doing (one may sit blocked in its read), main in its loop can
\* accept the next one; a step changes the record of at most one connection and
\* leaves all the others as they were; and under every interleaving a connection's
\* buffer is a prefix of its own peer's stream, its decoded request and its answer
\* come from that buffer alone, and what it wrote is the encoded answer to the
\* bytes it read itself.
C11_ConnectionsIndependent ==
    /\ []((spc = "accept" /\ Len(conns) < MaxConns) => ENABLED AcceptOk)
    /\ [](\A c \in 1..Len(conns) :
              /\ conns[c].requestData
                     = SubSeq(conns[c].stream, 1, Len(conns[c].requestData))
              /\ conns[c].pc \in {"handle", "encode", "write"}
                     => conns[c].httpReq = RequestDecoder(conns[c].requestData)
              /\ conns[c].pc \in {"encode", "write"}
                     => conns[c].httpRes
                            = HandleRequest(RequestDecoder(conns[c].requestData))
              /\ (conns[c].writes = 1 /\ conns[c].writeErr = "nil")
                     => conns[c].written
                            = ResponseEncoder(HandleRequest(RequestDecoder(
                                  conns[c].requestData))))
    /\ [][\A c, d \in 1..Len(conns) :
              (conns'[c] # conns[c] /\ d # c) => conns'[d] = conns[d]]_vars

\* the first connection has read nothing and is blocked in Read, its peer silent
\* and open, while the second, accepted later with other bytes, got its whole
\* answer and was closed
C11_Witness ==
    /\ Len(conns) = 2
    /\ conns[1].pc = "read"
    /\ conns[1].nextChunk = 1
    /\ conns[1].plan = <<>>
    /\ ~conns[1].peerClosed
    /\ conns[2].pc = "closed"
    /\ conns[2].requestData = Str("GET / HTTP/1.1\r\n\r\n")
    /\ conns[2].httpRes.StatusCode = Str("200")
    /\ conns[2].written = ResponseEncoder(handleRoot(conns[2].httpReq))

\* C12: the steps of a connection come in the order read until complete, decode,
\* handle, encode, write, close: a task moves only from reading to reading, to
\* decoding or (on a read error that delivered bytes) to closing, and then one
\* stage at a time; it writes at most once, and only the encoded answer; it reads
\* only while it has not written; and whichever way it leaves HandleConnection, it
\* has closed its connection exactly once.
C12_LifecycleOrder ==
    /\ [](\A c \in 1..Len(conns) :
              /\ conns[c].writes <= 1
              /\ conns[c].closes <= 1
              /\ conns[c].writes = 1 <=> conns[c].pc \in {"close", "closed"}
                                         /\ ~(conns[c].lastErr = "error" /\ conns[c].lastN > 0)
              /\ conns[c].closes = 1 <=> conns[c].pc = "closed"
              /\ conns[c].written \in {<<>>, ResponseEncoder(conns[c].httpRes)})
    /\ [][\A c \in 1..Len(conns) :
              /\ <<conns[c].pc, conns'[c].pc>> \in
                     {<<"read", "read">>, <<"read", "decode">>, <<"read", "close">>,
                      <<"decode", "decode">>, <<"decode", "handle">>,
                      <<"handle", "handle">>, <<"handle", "encode">>,
                      <<"encode", "encode">>, <<"encode", "write">>,
                      <<"write", "write">>, <<"write", "close">>,
                      <<"close", "close">>, <<"close", "closed">>,
                      <<"closed", "closed">>}
              /\ conns'[c].reads # conns[c].reads
                     => (conns[c].pc = "read" /\ conns[c].writes = 0)
              /\ conns'[c].writes # conns[c].writes => conns[c].pc = "write"
              /\ conns'[c].closes # conns[c].closes => conns[c].pc = "close"]_vars

\* one connection left by the read-error path, closed and without a response; the
\* other read two chunks, was answered once and closed
C12_Witness ==
    /\ Len(conns) = 2
    /\ conns[1].pc = "closed"
    /\ conns[1].lastErr = "error"
    /\ conns[1].lastN > 0
    /\ conns[1].writes = 0
    /\ conns[1].closes = 1
    /\ conns[2].pc = "closed"
    /\ conns[2].reads = 2
    /\ conns[2].writes = 1
    /\ conns[2].closes = 1
    /\ conns[2].written = ResponseEncoder(conns[2].httpRes)

(***************************************************************************)
(* The claims on the framers.                                              *)
(***************************************************************************)
\* C13: Fetch reads no further once the buffer holds the terminator and the
\* declared Content-Length is 0 or is covered by the bytes after the terminator,
\* also when the last chunk filled the read buffer: the loop is never back at its
\* Read with such a buffer, and what it returned then is the decoding of exactly
\* that buffer.
C13_LengthCompletion ==
    (/\ cpc \in {"read", "returned", "closed"}
     /\ lastErr = "nil"
     /\ Contains(responseData, CRLFCRLF)
     /\ \/ DeclaredLength(responseData) = 0
        \/ CurrentBodyLength(responseData) >= DeclaredLength(responseData))
    => /\ cpc # "read"
       /\ handed = <<responseData>>
       /\ calls.Read = nextChunk - 1

\* the second full chunk brought the terminator and the one declared body byte:
\* Fetch returned after two reads although the peer is open and a byte is waiting
C13_Witness ==
    /\ cpc = "returned"
    /\ plan = <<BUFFER_SIZE, BUFFER_SIZE, 1>>
    /\ lastN = BUFFER_SIZE
    /\ ~peerClosed
    /\ DeclaredLength(responseData) = 1
    /\ CurrentBodyLength(responseData) = 1
    /\ Len(responseData) = 2 * BUFFER_SIZE
    /\ Len(stream) = 2 * BUFFER_SIZE + 1
    /\ calls.Read = 2
    /\ handed = <<SubSeq(stream, 1, 2 * BUFFER_SIZE)>>

\* C14: in both read loops, as long as the buffer holds no terminator, the loop
\* is back at its Read after every chunk that filled the read buffer, and after
\* the first shorter chunk it has stopped: all chunks before the last were full,
\* the buffer is the bytes delivered so far, and exactly the buffer went to the
\* decoder.
C14_NoTerminatorRule ==
    /\ (/\ cpc \in {"read", "returned", "closed"}
        /\ calls.Read > 0
        /\ lastErr = "nil"
        /\ ~Contains(responseData, CRLFCRLF))
       => /\ Len(responseData) = (calls.Read - 1) * BUFFER_SIZE + lastN
          /\ responseData = SubSeq(stream, 1, Delivered)
          /\ IF lastN = BUFFER_SIZE
             THEN cpc = "read" /\ handed = <<>>
             ELSE cpc # "read" /\ handed = <<responseData>>
    /\ \A c \in 1..Len(conns) :
           (/\ conns[c].reads > 0
            /\ conns[c].lastErr = "nil"
            /\ ~Contains(conns[c].requestData, CRLFCRLF))
           => /\ Len(conns[c].requestData)
                     = (conns[c].reads - 1) * BUFFER_SIZE + conns[c].lastN
              /\ conns[c].requestData = SubSeq(conns[c].stream, 1, ServerDelivered(c))
              /\ IF conns[c].lastN = BUFFER_SIZE
                 THEN conns[c].pc = "read"
                 ELSE /\ conns[c].pc # "read"
                      /\ conns[c].pc \in {"handle", "encode", "write"}
                             => conns[c].httpReq = RequestDecoder(conns[c].requestData)

\* the server read a full chunk without the terminator and went on reading; the
\* next chunk, short and still without the terminator, ended the loop and the two
\* chunks were decoded
C14_Witness ==
    /\ Len(conns) = 1
    /\ conns[1].pc = "handle"
    /\ conns[1].stream = Str("GET / HTTP/1.1\r\n") \o Pad(BUFFER_SIZE - 15)
    /\ conns[1].plan = <<BUFFER_SIZE, Len(conns[1].stream) - BUFFER_SIZE>>
    /\ conns[1].reads = 2
    /\ conns[1].lastN < BUFFER_SIZE
    /\ conns[1].requestData = conns[1].stream
    /\ conns[1].httpReq = RequestDecoder(conns[1].stream)
    /\ conns[1].httpReq.Uri = Str("/")

\* the line has a name, the text before its first colon, and the name is
\* content-length in any letter case
NamesContentLength(line) ==
    /\ Contains(line, Str(":"))
    /\ ToLower(SubSeq(line, 1, Index(line, Str(":")))) = Str("content-length")

\* the length the first content-length line before the terminator declares: the
\* number after its colon, or 0 when there is no such line or no number there
FirstContentLength(bytes) ==
    LET lines == Split(SubSeq(bytes, 1, Index(bytes, CRLFCRLF)), CRLF)
        hits == {i \in 1..Len(lines) : NamesContentLength(lines[i])}
        first == CHOOSE i \in hits : \A j \in hits : i <= j
        value == TrimSpace(SubSeq(lines[first], Index(lines[first], Str(":")) + 2,
                                  Len(lines[first])))
    IN IF hits = {} THEN 0
       ELSE IF AtoiOk(value) THEN Atoi(value)
       ELSE 0

\* C15: once the terminator is in the buffer, the length Fetch compares against is
\* the value of the first line before the terminator named content-length, in any
\* letter case, and 0 when that line is missing or its value is no number, whatever
\* later lines say; after a full chunk the loop reads on exactly when that length
\* is not 0 and more than the bytes after the terminator.
C15_FirstContentLengthWins ==
    (/\ cpc \in {"read", "returned", "closed"}
     /\ lastErr = "nil"
     /\ Contains(responseData, CRLFCRLF))
    => /\ DeclaredLength(responseData) = FirstContentLength(responseData)
       /\ lastN = BUFFER_SIZE
              => (cpc = "read"
                      <=> /\ FirstContentLength(responseData) # 0
                          /\ CurrentBodyLength(responseData)
                                 < FirstContentLength(responseData))

\* the first Content-Length line has no number and the second declares 9: with 8
\* body bytes in after three full chunks, Fetch took the length as 0 and returned
C15_Witness ==
    /\ cpc = "returned"
    /\ lastN = BUFFER_SIZE
    /\ calls.Read = 3
    /\ HasPrefix(responseData, Str("Content-Length: x\r\nContent-Length: 9\r\n\r\n"))
    /\ CurrentBodyLength(responseData) < 9
    /\ DeclaredLength(responseData) = 0
    /\ handed = <<responseData>>

(***************************************************************************)
(* The claims on the responses of the server.                              *)
(***************************************************************************)
\* C16: every record HandleRequest returns has a content-length equal to the
\* number of bytes of its data as sent (compressed where it is compressed), and on
\* the wire the Content-Length line, the last before the blank line, gives the
\* number of body bytes that follow the blank line, which are that data.
C16_ContentLengthIsDataLength ==
    /\ (given \in {"request", "bytes"} /\ stage \in {"httpRes", "responseBytes", "response"})
           => httpRes.ContentLength = Len(httpRes.Data)
    /\ (given \in {"request", "bytes"} /\ stage \in {"responseBytes", "response"})
           => LET headerEndIndex == Index(responseBytes, CRLFCRLF)
                  lines == Split(SubSeq(responseBytes, 1, headerEndIndex), CRLF)
                  body == SubSeq(responseBytes, headerEndIndex + 5, Len(responseBytes))
              IN /\ headerEndIndex >= 0
                 /\ lines[Len(lines)] = Str("Content-Length: ") \o Itoa(Len(body))
                 /\ body = httpRes.Data

\* a greeting in XML went out gzip-compressed, longer than it was before
C16_Witness ==
    /\ given = "request"
    /\ stage = "responseBytes"
    /\ httpRes.StatusCode = Str("200")
    /\ httpRes.ContentEncoding = Str("gzip")
    /\ httpRes.Data = compressGzip(XmlMarshal(GreetResponse(Str("Ada"))))
    /\ httpRes.ContentLength > Len(XmlMarshal(GreetResponse(Str("Ada"))))
    /\ Contains(responseBytes, Str("Content-Length: ") \o Itoa(Len(httpRes.Data)) \o CRLFCRLF)

\* C17: the encoded response is, in this order, the line "VERSION STATUS OK", a
\* Content-Type line exactly when the content type is not empty, a Content-Encoding
\* line exactly when the content encoding is neither empty nor "none", a
\* Content-Length line, a blank line, and the body bytes as they are.
C17_ResponseWireFormat ==
    stage \in {"responseBytes", "response"} =>
        LET headLen == Len(responseBytes) - Len(httpRes.Data) - 4
            lines == Split(SubSeq(responseBytes, 1, headLen), CRLF)
            typeLines == IF httpRes.ContentType # <<>>
                         THEN <<Str("Content-Type: ") \o httpRes.ContentType>>
                         ELSE <<>>
            encodingLines == IF httpRes.ContentEncoding \notin {<<>>, Str("none")}
                             THEN <<Str("Content-Encoding: ") \o httpRes.ContentEncoding>>
                             ELSE <<>>
        IN /\ headLen > 0
           /\ lines = <<httpRes.Version \o Str(" ") \o httpRes.StatusCode \o Str(" OK")>>
                      \o typeLines \o encodingLines
                      \o <<Str("Content-Length: ") \o Itoa(httpRes.ContentLength)>>
           /\ SubSeq(responseBytes, headLen + 1, Len(responseBytes))
                  = CRLFCRLF \o httpRes.Data

\* a 500 record with a content type, the encoding "none" and a body of CR LF and a
\* letter has been encoded: reason OK, no Content-Encoding line, the body as it is
C17_Witness ==
    /\ stage = "responseBytes"
    /\ given = "response"
    /\ httpRes.StatusCode = Str("500")
    /\ httpRes.ContentEncoding = Str("none")
    /\ responseBytes = Str("HTTP/1.1 500 OK\r\nContent-Type: text/html\r\nContent-Length: 3\r\n\r\n\r\na")

(***************************************************************************)
(* The claims on the request decoder and the routes.                       *)
(***************************************************************************)
\* the header lines of a byte sequence: the lines after the first, up to the first
\* empty one
HeaderLinesOf(bytes) ==
    LET lines == Split(bytes, CRLF)
        empties == {i \in 2..Len(lines) : lines[i] = <<>>}
        last == IF empties = {} THEN Len(lines)
                ELSE (CHOOSE i \in empties : \A j \in empties : i <= j) - 1
    IN SubSeq(lines, 2, last)

\* the value of the header called name (in lower case) among the header lines: the
\* text after the first colon and space of the last line so called, empty if none
HeaderValueOf(bytes, name) ==
    LET lines == HeaderLinesOf(bytes)
        hits == {i \in 1..Len(lines) :
                    /\ Contains(lines[i], Str(": "))
                    /\ ToLower(SubSeq(lines[i], 1, Index(lines[i], Str(": ")))) = name}
        last == CHOOSE i \in hits : \A j \in hits : j <= i
    IN IF hits = {} THEN <<>>
       ELSE SubSeq(lines[last], Index(lines[last], Str(": ")) + 3, Len(lines[last]))

\* C18: RequestDecoder gives a record for every byte sequence. A first line of
\* fewer than three tokens leaves method, target and version empty, three or more
\* give the first three; whatever the first line, host, accept and accept-encoding
\* are the values of the header lines so named in any letter case, other lines
\* count for nothing, and without an Accept-Encoding value the field is "none".
C18_LenientRequestDecode ==
    (given = "bytes" /\ stage # "requestBytes") =>
        LET tokens == Split(Split(requestBytes, CRLF)[1], Str(" "))
            encoding == HeaderValueOf(requestBytes, Str("accept-encoding"))
        IN /\ httpReq.Method = (IF Len(tokens) < 3 THEN <<>> ELSE tokens[1])
           /\ httpReq.Uri = (IF Len(tokens) < 3 THEN <<>> ELSE tokens[2])
           /\ httpReq.Version = (IF Len(tokens) < 3 THEN <<>> ELSE tokens[3])
           /\ httpReq.Host = HeaderValueOf(requestBytes, Str("host"))
           /\ httpReq.Accept = HeaderValueOf(requestBytes, Str("accept"))
           /\ httpReq.AcceptEncoding = (IF encoding = <<>> THEN Str("none") ELSE encoding)

\* bytes with a two-token first line, no terminator, a HOST header, a line without
\* colon and space, and no Accept-Encoding have been decoded
C18_Witness ==
    /\ given = "bytes"
    /\ stage = "httpReq"
    /\ requestBytes = Str("GET /\r\nHOST: h2\r\nHost:h")
    /\ httpReq = [Method |-> <<>>, Uri |-> <<>>, Version |-> <<>>, Host |-> Str("h2"),
                  Accept |-> <<>>, AcceptEncoding |-> Str("none")]

\* the static page of the root route
RootPage ==
    Str("<html><body><h1>Halo, dunia! Aku Muhammad Raihan Maulana sedang mengerjakan A03")
    \o Str("</h1></body></html>")

\* C19: a request whose target parses to the path "/" is answered 200, text/html,
\* with the static page as it is: no Content-Encoding line goes on the wire and the
\* bytes after the blank line are the page, whatever Accept and Accept-Encoding
\* say and whatever query follows the path.
C19_RootRoute ==
    (/\ given \in {"request", "bytes"}
     /\ stage \in {"httpRes", "responseBytes", "response"}
     /\ UrlParseOk(httpReq.Uri)
     /\ UrlPath(httpReq.Uri) = Str("/"))
    => /\ httpRes.Version = Str("HTTP/1.1")
       /\ httpRes.StatusCode = Str("200")
       /\ httpRes.ContentType = Str("text/html")
       /\ httpRes.Data = RootPage
       /\ stage # "httpRes"
              => /\ ~Contains(responseBytes, Str("Content-Encoding"))
                 /\ Contains(responseBytes, Str("Content-Type: text/html\r\n"))
                 /\ SubSeq(responseBytes, Len(responseBytes) - Len(RootPage) - 3,
                           Len(responseBytes)) = CRLFCRLF \o RootPage

\* the root was asked for with a query, as XML and under gzip, and the page came
\* back plain
C19_Witness ==
    /\ given = "request"
    /\ stage = "response"
    /\ req.Uri = Str("/?name=Ada")
    /\ req.Accept = Str("application/xml")
    /\ req.AcceptEncoding = Str("gzip")
    /\ httpReq.AcceptEncoding = Str("gzip")
    /\ response.StatusCode = Str("200")
    /\ response.ContentType = Str("text/html")
    /\ response.ContentEncoding = <<>>
    /\ response.Data = RootPage

\* C20: when url.Parse fails on the target, the answer is the bare 400 record:
\* version HTTP/1.1, no content type, no content encoding, content length 0 and no
\* data, whatever route the target looks like and whatever the request accepts;
\* and a target that parses is never answered 400.
C20_InvalidTarget ==
    (given \in {"request", "bytes"} /\ stage \in {"httpRes", "responseBytes", "response"})
    => /\ ~UrlParseOk(httpReq.Uri)
              => httpRes = [Version |-> Str("HTTP/1.1"), StatusCode |-> Str("400"),
                            ContentType |-> <<>>, ContentEncoding |-> <<>>,
                            ContentLength |-> 0, Data |-> <<>>]
       /\ UrlParseOk(httpReq.Uri) => httpRes.StatusCode # Str("400")

\* a greet target with the valid id and a cut-off escape, asked for as XML under
\* gzip, was answered 400 with nothing else, and the client decoded it
C20_Witness ==
    /\ given = "request"
    /\ stage = "response"
    /\ httpReq.Uri = Str("/greet/2306216636%2")
    /\ httpReq.Accept = Str("application/xml")
    /\ httpReq.AcceptEncoding = Str("gzip")
    /\ httpRes.StatusCode = Str("400")
    /\ responseBytes = Str("HTTP/1.1 400 OK\r\nContent-Length: 0\r\n\r\n")
    /\ response.StatusCode = Str("400")

(***************************************************************************)
(* The claims on errors, the shape of an exchange and termination.        *)
(***************************************************************************)
\* the client's Write failed: it was called and nothing went on the wire
ClientWriteFailed == calls.Write = 1 /\ wire = <<>>

\* C21: once a read or a write on a connection has failed, no step performs another
\* read or write on it: a server task whose Read or Write returned an error reads
\* and writes no more (so it writes no response after a failed read), and the
\* client reads and writes no more after a failed Write or a failed Read.
C21_ErrorsAbort ==
    [][/\ \A c \in 1..Len(conns) :
              (conns[c].lastErr = "error" \/ conns[c].writeErr = "error")
              => /\ conns'[c].reads = conns[c].reads
                 /\ conns'[c].writes = conns[c].writes
       /\ (lastErr = "error" \/ ClientWriteFailed)
              => /\ calls'.Read = calls.Read
                 /\ calls'.Write = calls.Write]_vars

\* what the code keeps of C21: the client, and a server task whose failed Read
\* returned bytes or whose Write failed, touch the connection no more
C21_AbortsExceptEmptyRead ==
    [][/\ \A c \in 1..Len(conns) :
              \/ conns[c].lastErr = "error" /\ conns[c].lastN > 0
              \/ conns[c].writeErr = "error"
              => /\ conns'[c].reads = conns[c].reads
                 /\ conns'[c].writes = conns[c].writes
       /\ (lastErr = "error" \/ ClientWriteFailed)
              => /\ calls'.Read = calls.Read
                 /\ calls'.Write = calls.Write]_vars

\* C22: a run of the client dials once, writes the encoded request once, reads
\* until the framer stops, and closes once, in that order: Dial, Write and Close
\* are each called at most once and the wire carries at most one copy of the
\* request; a Write happens only after the one Dial, a Read only after the one
\* Write went through, the Close only after Fetch returned and nothing after the
\* Close; a run that reaches the end has made exactly one Dial, one Write and one
\* Close, and, when the Write went through, at least one Read and exactly one
\* buffer handed to the decoder. A failed Dial ends the run with nothing opened,
\* written or closed, and a failed Write skips the reads.
C22_ExchangeShape ==
    /\ [](/\ calls.Dial <= 1 /\ calls.Write <= 1 /\ calls.Close <= 1
          /\ wire \in {<<>>, RequestEncoder(ClientRequest)}
          /\ Len(handed) <= 1
          /\ calls.Write > 0 => calls.Dial = 1
          /\ calls.Read > 0 => wire = RequestEncoder(ClientRequest)
          /\ calls.Close > 0 => calls.Write = 1
          /\ cpc = "exit"
                 => calls = [Dial |-> 1, Write |-> 0, Read |-> 0, Close |-> 0]
          /\ cpc = "closed"
                 => /\ calls.Dial = 1 /\ calls.Write = 1 /\ calls.Close = 1
                    /\ ClientWriteFailed => calls.Read = 0 /\ handed = <<>>
                    /\ ~ClientWriteFailed => calls.Read >= 1 /\ Len(handed) = 1)
    /\ [][/\ calls'.Dial # calls.Dial
                 => calls = NoCalls
          /\ calls'.Write # calls.Write
                 => calls.Read = 0 /\ calls.Close = 0
          /\ calls'.Read # calls.Read
                 => calls.Close = 0 /\ handed = <<>>
          /\ calls'.Close # calls.Close
                 => cpc = "returned" /\ (ClientWriteFailed \/ Len(handed) = 1)
          /\ calls.Close = 1 => calls' = calls /\ wire' = wire]_vars

\* a run that read its response in three chunks and closed: one Dial, one Write
\* of the encoded request, three Reads, one buffer decoded, one Close
C22_Witness ==
    /\ cpc = "closed"
    /\ calls = [Dial |-> 1, Write |-> 1, Read |-> 3, Close |-> 1]
    /\ wire = RequestEncoder(ClientRequest)
    /\ lastErr = "nil"
    /\ Len(handed) = 1
    /\ handed[1] = stream

\* C23: in both read loops the buffer is at every point the bytes of all the
\* chunks Read has returned so far, in order: the prefix of the peer's stream
\* delivered so far, nothing dropped, doubled or reordered; and what the decoder
\* is given is that buffer.
C23_PrefixInvariant ==
    /\ responseData = SubSeq(stream, 1, Delivered)
    /\ handed # <<>> => handed = <<responseData>>
    /\ \A c \in 1..Len(conns) :
           /\ conns[c].requestData = SubSeq(conns[c].stream, 1, ServerDelivered(c))
           /\ conns[c].pc \in {"handle", "encode", "write"}
                  => conns[c].httpReq = RequestDecoder(conns[c].requestData)

\* what the code keeps of C23: the buffer is the delivered prefix less the chunk
\* that a Read returned together with an error, and the decoder is given the buffer
C23_PrefixExceptFailedChunk ==
    /\ responseData
           = SubSeq(stream, 1, Delivered - (IF lastErr = "error" THEN lastN ELSE 0))
    /\ handed # <<>> => handed = <<responseData>>
    /\ \A c \in 1..Len(conns) :
           /\ conns[c].requestData
                  = SubSeq(conns[c].stream, 1,
                           ServerDelivered(c) - (IF conns[c].lastErr = "error"
                                                 THEN conns[c].lastN ELSE 0))
           /\ conns[c].pc \in {"handle", "encode", "write"}
                  => conns[c].httpReq = RequestDecoder(conns[c].requestData)

\* C24: for every buffer that Fetch's loop took as complete, the content length
\* ResponseDecoder reports is the declared length the loop used, whatever the
\* spelling of the Content-Length line.
C24_FramerDecoderAgree ==
    (Len(handed) = 1 /\ FetchComplete(handed[1]))
    => fetched.ContentLength = DeclaredLength(handed[1])

\* what the code keeps of C24: the two agree on the responses this server's
\* ResponseEncoder writes
C24_AgreeOnServerResponses ==
    (Len(handed) = 1 /\ FetchComplete(handed[1]) /\ stream \in WholeResponses)
    => fetched.ContentLength = DeclaredLength(handed[1])

\* the client waits in Read on a peer that is open and has nothing more to send
ClientSilentPeer == cpc = "read" /\ nextChunk > Len(plan) /\ ~peerClosed

\* connection c's task waits in Read on a peer that is open and has nothing more
\* to send
ServerSilentPeer(c) ==
    /\ conns[c].pc = "read"
    /\ conns[c].nextChunk > Len(conns[c].plan)
    /\ ~conns[c].peerClosed

\* C25: when every Read returns, both loops end: the client's Fetch returns a
\* Response (the decoded buffer, or the empty one after a failed Write) and the
\* connection is closed; every accepted connection's task ends with the connection
\* closed once and, unless its Read failed, its response written. And while a
\* peer is open and silent, after only full chunks or nothing, no Read returns
\* bytes or the end of the stream and no step of the program can be taken: the
\* task stays in Read with the connection open until the peer closes or the Read
\* fails.
C25_Termination ==
    /\ (cpc \in {"write", "read"}) ~> (cpc = "closed")
    /\ [](cpc \in {"returned", "closed"}
              => /\ calls.Read > 0 => handed # <<>> /\ fetched = ResponseDecoder(handed[1])
                 /\ calls.Read = 0 => ClientWriteFailed /\ fetched = EmptyResponse)
    /\ \A c \in 1..MaxLiveConns :
           (Len(conns) >= c)
           ~> (/\ Len(conns) >= c
               /\ conns[c].pc = "closed"
               /\ conns[c].closes = 1
               /\ conns[c].lastErr # "error" => conns[c].writes = 1)
    /\ [](ClientSilentPeer
              => /\ calls.Read = 0 \/ lastN = BUFFER_SIZE
                 /\ calls.Close = 0
                 /\ ~ENABLED ReadChunk /\ ~ENABLED ReadChunkError /\ ~ENABLED ReadEOF
                 /\ ~ENABLED ClientProgram)
    /\ [](\A c \in 1..Len(conns) :
              ServerSilentPeer(c)
              => /\ conns[c].reads = 0 \/ conns[c].lastN = BUFFER_SIZE
                 /\ conns[c].closes = 0 /\ conns[c].writes = 0
                 /\ ~ENABLED ServerReadChunk(c) /\ ~ENABLED ServerReadChunkError(c)
                 /\ ~ENABLED ServerReadEOF(c)
                 /\ ~ENABLED ServerClose(c) /\ ~ENABLED ServerWriteOk(c))
    /\ [][/\ ClientSilentPeer
                 => ClientSilentPeer' \/ peerClosed' \/ lastErr' = "error"
          /\ \A c \in 1..Len(conns) :
                 ServerSilentPeer(c)
                 => \/ ServerSilentPeer(c)'
                    \/ conns'[c].peerClosed
                    \/ conns'[c].lastErr = "error"]_vars

\* a task read its request in two chunks from a peer that stayed open, answered
\* it and closed the connection
C25_Witness ==
    /\ Len(conns) = 1
    /\ conns[1].pc = "closed"
    /\ conns[1].stream = Str("GET / HTTP/1.1\r\n\r\n")
    /\ conns[1].reads = 2
    /\ conns[1].lastErr = "nil"
    /\ ~conns[1].peerClosed
    /\ conns[1].writes = 1
    /\ conns[1].closes = 1
    /\ conns[1].written = ResponseEncoder(HandleRequest(RequestDecoder(conns[1].stream)))

=============================================================================
